---- MODULE Spec2Model ----
(***************************************************************************)
(* Model of the F1 2019 UDP packet decoder of f1-api: the tokio codec      *)
(* (src/src/codec.rs), the FromBytes trait (src/src/packet.rs), the packet *)
(* dispatcher (src/src/nineteen.rs), the header decoders                   *)
(* (src/src/nineteen/header.rs) and the decoders of the packet types and   *)
(* of their enumerated fields (src/src/nineteen/*.rs).                     *)
(*                                                                         *)
(* A buffer is a sequence of bytes (1-indexed); a cursor is a 0-based      *)
(* position into it, as std::io::Cursor is.  Every decoder is an operator  *)
(* from (buffer, cursor position) to a result record                       *)
(*    [tag |-> "Ok",  val, pos]   the value and the cursor it leaves       *)
(*    [tag |-> "Err", kind, msg, pos]                                      *)
(*    [tag |-> "Panic"]           a get_* on an exhausted cursor, or a     *)
(*                                panicking conversion                     *)
(* Integers wider than 31 bits are kept as 16-bit limbs, most significant  *)
(* first, since the checker's integers are 32 bits wide.                   *)
(***************************************************************************)
EXTENDS Integers, Sequences, FiniteSets, TLC

VARIABLES
    src,    \* the BytesMut the transport owns and hands to the decoder
    pos,    \* position of the caller's cursor over src (direct decoder calls)
    wire,   \* bytes of the datagram the transport has not yet appended to src
    op,     \* the operation that produced this state
    ret,    \* what that operation returned
    pre     \* [src, pos] as they were when that operation was called

vars == <<src, pos, wire, op, ret, pre>>

-----------------------------------------------------------------------------
(* Results *)

Ok(v, p) == [tag |-> "Ok", val |-> v, pos |-> p]

Err(k, m, p) == [tag |-> "Err", kind |-> k, msg |-> m, pos |-> p]

Panic == [tag |-> "Panic"]

-----------------------------------------------------------------------------
(* bytes::Buf on std::io::Cursor, as the decoders use it *)

remaining(b, p) == IF p >= Len(b) THEN 0 ELSE Len(b) - p

get_u8(b, p) == b[p + 1]

get_i8(b, p) == IF b[p + 1] >= 128 THEN b[p + 1] - 256 ELSE b[p + 1]

\* get_u16, the big-endian read that get_u16_le is easily mistaken for
get_u16_be(b, p) == 256 * b[p + 1] + b[p + 2]

get_u16_le(b, p) == b[p + 1] + 256 * b[p + 2]

\* a u32 as two 16-bit limbs
get_u32_le(b, p) == [hi |-> get_u16_le(b, p + 2), lo |-> get_u16_le(b, p)]

\* a u64 as four 16-bit limbs, most significant first
get_u64_le(b, p) ==
    << get_u16_le(b, p + 6), get_u16_le(b, p + 4),
       get_u16_le(b, p + 2), get_u16_le(b, p) >>

\* an f32 as the sign, biased exponent and mantissa of its IEEE-754 bits
get_f32_le(b, p) ==
    LET hi == get_u16_le(b, p + 2)
        lo == get_u16_le(b, p)
    IN  [sign |-> hi \div 32768,
         exp  |-> (hi \div 128) % 256,
         mant |-> (hi % 128) * 65536 + lo]

\* Duration::from_secs_f32: panics on a negative, non-finite or too large
\* float.  Only the whole seconds (Duration::as_secs) are modelled; they are
\* an integer up to 2^31 - 1 and <<significand, shift>> above it.
Duration_from_secs_f32(f) ==
    LET e == f.exp - 127
        m == 8388608 + f.mant
    IN  IF f.exp = 255 THEN Panic
        ELSE IF f.sign = 1 /\ (f.exp # 0 \/ f.mant # 0) THEN Panic
        ELSE IF e >= 64 THEN Panic
        ELSE IF f.exp = 0 \/ e < 0 THEN Ok([secs |-> 0], 0)
        ELSE IF e <= 23 THEN Ok([secs |-> m \div (2 ^ (23 - e))], 0)
        ELSE IF e <= 30 THEN Ok([secs |-> m * (2 ^ (e - 23))], 0)
        ELSE Ok([secs |-> <<m, e - 23>>], 0)

-----------------------------------------------------------------------------
(* src/src/nineteen/header.rs *)

HEADER_SIZE == 23

\* impl TryFrom<u8> for PacketType
PacketType_try_from(value) ==
    CASE value = 6 -> Ok("Telemetry", 0)
      [] value = 7 -> Ok("Status", 0)
      [] OTHER -> Err("InvalidData", "Failed to decode packet id.", 0)

\* decode_header as it would be if it checked the packet format it reads
\* first, the way F1Codec::decode does
decode_header_checked(b, p) ==
    IF remaining(b, p) < 2 THEN Panic
    ELSE IF get_u16_le(b, p) # 2019
    THEN Err("InvalidData", "Unknown packet format.", p + 2)
    ELSE IF remaining(b, p) < 18 THEN Panic
    ELSE LET session_time == Duration_from_secs_f32(get_f32_le(b, p + 14))
         IN  IF session_time.tag = "Panic" THEN Panic
             ELSE IF remaining(b, p) < HEADER_SIZE THEN Panic
             ELSE Ok([game_version     |-> [major |-> get_u8(b, p + 2),
                                            minor |-> get_u8(b, p + 3)],
                      session_uid      |-> get_u64_le(b, p + 6),
                      session_time     |-> session_time.val,
                      frame_identifier |-> get_u32_le(b, p + 18),
                      player_car_index |-> get_u8(b, p + 22)],
                     p + HEADER_SIZE)

\* decode_header: the version tag, the packet version and the packet type are
\* skipped, not checked.
decode_header(b, p) ==
    IF remaining(b, p) < 18 THEN Panic
    ELSE LET session_time == Duration_from_secs_f32(get_f32_le(b, p + 14))
         IN  IF session_time.tag = "Panic" THEN Panic
             ELSE IF remaining(b, p) < HEADER_SIZE THEN Panic
             ELSE Ok([game_version     |-> [major |-> get_u8(b, p + 2),
                                            minor |-> get_u8(b, p + 3)],
                      session_uid      |-> get_u64_le(b, p + 6),
                      session_time     |-> session_time.val,
                      frame_identifier |-> get_u32_le(b, p + 18),
                      player_car_index |-> get_u8(b, p + 22)],
                     p + HEADER_SIZE)

\* impl FromBytes for PacketHeader: decode
PacketHeader_decode(b, p) ==
    IF remaining(b, p) < 6 THEN Panic
    ELSE LET packet_type == PacketType_try_from(get_u8(b, p + 5))
         IN  IF packet_type.tag = "Err"
             THEN Err(packet_type.kind, packet_type.msg, p + 6)
             ELSE IF remaining(b, p) < HEADER_SIZE THEN Panic
             ELSE Ok([packet_format      |-> get_u16_le(b, p),
                      game_major_version |-> get_u8(b, p + 2),
                      game_minor_version |-> get_u8(b, p + 3),
                      packet_version     |-> get_u8(b, p + 4),
                      packet_type        |-> packet_type.val,
                      session_uid        |-> get_u64_le(b, p + 6),
                      session_time       |-> get_f32_le(b, p + 14),
                      frame_identifier   |-> get_u32_le(b, p + 18),
                      player_car_index   |-> get_u8(b, p + 22)],
                     p + HEADER_SIZE)

-----------------------------------------------------------------------------
(* Enumerated fields: each table lists the arms of the source's match, in  *)
(* order, as <<code, variant>>.                                            *)

\* decode_flag (flag.rs): "Failed to decode flag."
Flag_table ==
    << <<-1, "Invalid">>, <<0, "None">>, <<1, "Green">>, <<2, "Blue">>,
       <<3, "Yellow">>, <<4, "Red">> >>

\* decode_gear (telemetry.rs): "Failed to decode gear."
Gear_table ==
    << <<-1, "Reverse">>, <<0, "Neutral">>, <<1, "First">>, <<2, "Second">>,
       <<3, "Third">>, <<4, "Fourth">>, <<5, "Fifth">>, <<6, "Sixth">>,
       <<7, "Seventh">>, <<8, "Eighth">> >>

\* decode_surface (telemetry.rs): "Failed to decode surface."
Surface_table ==
    << <<0, "Tarmac">>, <<1, "RumbleStrip">>, <<2, "Concrete">>, <<3, "Rock">>,
       <<4, "Gravel">>, <<5, "Mud">>, <<6, "Sand">>, <<7, "Grass">>,
       <<8, "Water">>, <<9, "Cobblestone">>, <<10, "Metal">>, <<11, "Ridged">> >>

\* decode_traction_control (status.rs): "Failed to decode transaction control."
TractionControl_table ==
    << <<0, "Off">>, <<1, "Low">>, <<2, "High">> >>

\* decode_fuel_mix (status.rs): "Failed to decode fuel mix."
FuelMix_table ==
    << <<0, "Lean">>, <<1, "Standard">>, <<2, "Rich">>, <<3, "Max">> >>

\* decode_drs (status.rs): "Failed to decode DRS status."
DrsSetting_table ==
    << <<-1, "Unknown">>, <<0, "NotAllowed">>, <<1, "Allowed">> >>

\* decode_physical_tyre_compound (status.rs): "Failed to decode physical tyre compound."
PhysicalTyreCompound_table ==
    << <<7, "F1Intermediate">>, <<8, "F1Wet">>, <<9, "ClassicDry">>, <<10, "ClassicWet">>,
       <<11, "F2SuperSoft">>, <<12, "F2Soft">>, <<13, "F2Medium">>, <<14, "F2Hard">>,
       <<15, "F2Wet">>, <<16, "F1C5">>, <<17, "F1C4">>, <<18, "F1C3">>,
       <<19, "F1C2">>, <<20, "F1C1">> >>

\* decode_visual_tyre_compound (status.rs): "Failed to decode visual tyre compound."
VisualTyreCompound_table ==
    << <<7, "F1Intermediate">>, <<8, "F1Wet">>, <<9, "ClassicDry">>, <<10, "ClassicWet">>,
       <<11, "F2SuperSoft">>, <<12, "F2Soft">>, <<13, "F2Medium">>, <<14, "F2Hard">>,
       <<15, "F2Wet">>, <<16, "F1Soft">>, <<17, "F1Medium">>, <<18, "F1Hard">> >>

\* decode_ers_deploy_mode (status.rs): "Failed to decode ERS deployment mode."
ErsDeployMode_table ==
    << <<0, "None">>, <<1, "Low">>, <<2, "Medium">>, <<3, "High">>,
       <<4, "Overtake">>, <<5, "Hotlap">> >>

\* DriverStatus (lap.rs): "Failed to decode driver status."
DriverStatus_table ==
    << <<0, "InGarage">>, <<1, "FlyingLap">>, <<2, "InLap">>, <<3, "OutLap">>,
       <<4, "OnTrack">> >>

\* PitStatus (lap.rs): "Failed to decode pit status."
PitStatus_table ==
    << <<0, "None">>, <<1, "Pitting">>, <<2, "InPits">> >>

\* ResultStatus (lap.rs): "Failed to decode result status."
ResultStatus_table ==
    << <<0, "Invalid">>, <<1, "Inactive">>, <<2, "Active">>, <<3, "Finished">>,
       <<4, "Disqualified">>, <<5, "NotClassified">>, <<6, "Retired">> >>

\* Sector (lap.rs): "Failed to decode sector."
Sector_table ==
    << <<0, "First">>, <<1, "Second">>, <<2, "Third">> >>

\* Formula (session.rs): "Failed to decode formula."
Formula_table ==
    << <<0, "ModernF1">>, <<1, "ClassicF1">>, <<2, "F2">>, <<3, "GenericF1">> >>

\* SafetyCar (session.rs): "Failed to decode safety car."
SafetyCar_table ==
    << <<0, "None">>, <<1, "Full">>, <<2, "Virtual">> >>

\* Session (session.rs): "Failed to decode session."
Session_table ==
    << <<0, "Unknown">>, <<1, "P1">>, <<2, "P2">>, <<3, "P3">>,
       <<4, "ShortPractice">>, <<5, "Q1">>, <<6, "Q2">>, <<7, "Q3">>,
       <<8, "ShortQualifying">>, <<9, "OneShotQualifying">>, <<10, "Race">>, <<11, "Race2">>,
       <<12, "TimeTrial">> >>

\* Track (session.rs): "Failed to decode track."
Track_table ==
    << <<-1, "Unknown">>, <<0, "Melbourne">>, <<1, "PaulRicard">>, <<2, "Shanghai">>,
       <<3, "Bahrain">>, <<4, "Catalunya">>, <<5, "Monaco">>, <<6, "Montreal">>,
       <<7, "Silverstone">>, <<8, "Hockenheim">>, <<9, "Hungaroring">>, <<10, "Spa">>,
       <<11, "Monza">>, <<12, "Singapore">>, <<13, "Suzuka">>, <<14, "AbuDhabi">>,
       <<15, "Texas">>, <<16, "Brazil">>, <<17, "Austria">>, <<18, "Sochi">>,
       <<19, "Mexico">>, <<20, "Azerbaijan">>, <<21, "BahrainShort">>, <<22, "SilverstoneShort">>,
       <<23, "TexasShort">>, <<24, "SuzukaShort">> >>

\* Weather (session.rs): "Failed to decode weather."
Weather_table ==
    << <<0, "Clear">>, <<1, "LightCloud">>, <<2, "Overcast">>, <<3, "LightRain">>,
       <<4, "HeavyRain">>, <<5, "Storm">> >>

\* Controller (participants.rs): "Failed to decode controller."
Controller_table ==
    << <<0, "Human">>, <<1, "AI">> >>

\* Driver (participants.rs): "Failed to decode driver."
Driver_table ==
    << <<0, "CarlosSainz">>, <<1, "DaniilKvyat">>, <<2, "DanielRicciardo">>, <<6, "KimiRaikkonen">>,
       <<7, "LewisHamilton">>, <<9, "MaxVerstappen">>, <<10, "NicoHulkenburg">>, <<11, "KevinMagnussen">>,
       <<12, "RomainGrosjean">>, <<13, "SebastianVettel">>, <<14, "SergioPerez">>, <<15, "ValtteriBottas">>,
       <<19, "LanceStroll">>, <<20, "ArronBarnes">>, <<21, "MartinGiles">>, <<22, "AlexMurray">>,
       <<23, "LucasRoth">>, <<24, "IgorCorreia">>, <<25, "SophieLevasseur">>, <<26, "JonasSchiffer">>,
       <<27, "AlainForest">>, <<28, "JayLetourneau">>, <<29, "EstoSaari">>, <<30, "YasarAtiyeh">>,
       <<31, "CallistoCalabresi">>, <<32, "NaotaIzum">>, <<33, "HowardClarke">>, <<34, "WilheimKaufmann">>,
       <<35, "MarieLaursen">>, <<36, "FlavioNieves">>, <<37, "PeterBelousov">>, <<38, "KlimekMichalski">>,
       <<39, "SantiagoMoreno">>, <<40, "BenjaminCoppens">>, <<41, "NoahVisser">>, <<42, "GertWaldmuller">>,
       <<43, "JulianQuesada">>, <<44, "DanielJones">>, <<45, "ArtemMarkelov">>, <<46, "TadasukeMakino">>,
       <<47, "SeanGelael">>, <<48, "NyckDeVries">>, <<49, "JackAitken">>, <<50, "GeorgeRussell">>,
       <<51, "MaximilianGunther">>, <<52, "NireiFukuzumi">>, <<53, "LucaGhiotto">>, <<54, "LandoNorris">>,
       <<55, "SergioSetteCamara">>, <<56, "LouisDeletraz">>, <<57, "AntonioFuoco">>, <<58, "CharlesLeclerc">>,
       <<59, "PierreGasly">>, <<62, "AlexanderAlbon">>, <<63, "NicholasLatifi">>, <<64, "DorianBoccolacci">>,
       <<65, "NikoKari">>, <<66, "RobertoMerhi">>, <<67, "ArjunMaini">>, <<68, "AlessioLorandi">>,
       <<69, "RubenMeijer">>, <<70, "RashidNair">>, <<71, "JackTremblay">>, <<74, "AntonioGiovinazzi">>,
       <<75, "RobertKubica">>, <<78, "NobuharuMatsushita">>, <<79, "NikitaMazepin">>, <<80, "GuanyaZhou">>,
       <<81, "MickSchumacher">>, <<82, "CallumIlott">>, <<83, "JuanManuelCorrea">>, <<84, "JordanKing">>,
       <<85, "MahaveerRaghunathan">>, <<86, "TatianaCalderon">>, <<87, "AnthoineHubert">>, <<88, "GuilianoAlesi">>,
       <<89, "RalphBoschung">> >>

\* Team (participants.rs): "Failed to decode team."
Team_table ==
    << <<0, "Mercedes">>, <<1, "Ferrari">>, <<2, "RedBullRacing">>, <<3, "Williams">>,
       <<4, "RacingPoint">>, <<5, "Renault">>, <<6, "ToroRosso">>, <<7, "Haas">>,
       <<8, "McLaren">>, <<9, "AlfaRomeo">>, <<10, "McLaren1988">>, <<11, "McLaren1991">>,
       <<12, "Williams1992">>, <<13, "Ferrari1995">>, <<14, "Williams1996">>, <<15, "McLaren1998">>,
       <<16, "Ferrari2002">>, <<17, "Ferrari2004">>, <<18, "Renault2006">>, <<19, "Ferrari2007">>,
       <<21, "RedBull2010">>, <<22, "Ferrari1976">>, <<23, "ARTGrandPrix">>, <<24, "CamposVexatecRacing">>,
       <<25, "Carlin">>, <<26, "CharouzRacingSystem">>, <<27, "DAMS">>, <<28, "RussianTime">>,
       <<29, "MPMotorsport">>, <<30, "Pertamina">>, <<31, "McLaren1990">>, <<32, "Trident">>,
       <<33, "BWTArden">>, <<34, "McLaren1976">>, <<35, "Lotus1972">>, <<36, "Ferrari1979">>,
       <<37, "McLaren1982">>, <<38, "Williams2003">>, <<39, "Brawn2009">>, <<40, "Lotus1978">>,
       <<42, "ArtGP2019">>, <<43, "Campos2019">>, <<44, "Carlin2019">>, <<45, "SauberJuniorCharouz2019">>,
       <<46, "Dams2019">>, <<47, "UniVirtuosi2019">>, <<48, "MPMotorsport2019">>, <<49, "Prema2019">>,
       <<50, "Trident2019">>, <<51, "Arden2019">>, <<63, "Ferrari1990">>, <<64, "McLaren2010">>,
       <<65, "Ferrari2010">> >>

\* Nationality (participants.rs): "Failed to decode nationality."
Nationality_table ==
    << <<1, "American">>, <<2, "Argentinean">>, <<3, "Australian">>, <<4, "Austrian">>,
       <<5, "Azerbaijani">>, <<6, "Bahraini">>, <<7, "Belgian">>, <<8, "Bolivian">>,
       <<9, "Brazilian">>, <<10, "British">>, <<11, "Bulgarian">>, <<12, "Cameroonian">>,
       <<13, "Canadian">>, <<14, "Chilean">>, <<15, "Chinese">>, <<16, "Colombian">>,
       <<17, "CostaRican">>, <<18, "Croatian">>, <<19, "Cypriot">>, <<20, "Czech">>,
       <<21, "Danish">>, <<22, "Dutch">>, <<23, "Ecuadorian">>, <<24, "English">>,
       <<25, "Emirian">>, <<26, "Estonian">>, <<27, "Finnish">>, <<28, "French">>,
       <<29, "German">>, <<30, "Ghanaian">>, <<31, "Greek">>, <<32, "Guatemalan">>,
       <<33, "Honduran">>, <<34, "HongKonger">>, <<35, "Hungarian">>, <<36, "Icelander">>,
       <<37, "Indian">>, <<38, "Indonesian">>, <<39, "Irish">>, <<40, "Israeli">>,
       <<41, "Italian">>, <<42, "Jamaican">>, <<43, "Japanese">>, <<44, "Jordanian">>,
       <<45, "Kuwaiti">>, <<46, "Latvian">>, <<47, "Lebanese">>, <<48, "Lithuanian">>,
       <<49, "Luxembourger">>, <<50, "Malaysian">>, <<51, "Maltese">>, <<52, "Mexican">>,
       <<53, "Monegasque">>, <<54, "NewZealander">>, <<55, "Nicaraguan">>, <<56, "NorthKorean">>,
       <<57, "NorthernIrish">>, <<58, "Norwegian">>, <<59, "Omani">>, <<60, "Pakistani">>,
       <<61, "Panamanian">>, <<62, "Paraguayan">>, <<63, "Peruvian">>, <<64, "Polish">>,
       <<65, "Portuguese">>, <<66, "Qatari">>, <<67, "Romanian">>, <<68, "Russian">>,
       <<69, "Salvadoran">>, <<70, "Saudi">>, <<71, "Scottish">>, <<72, "Serbian">>,
       <<73, "Singaporean">>, <<74, "Slovakian">>, <<75, "Slovenian">>, <<76, "SouthKorean">>,
       <<77, "SouthAfrican">>, <<78, "Spanish">>, <<79, "Swedish">>, <<80, "Swiss">>,
       <<81, "Thai">>, <<82, "Turkish">>, <<83, "Uruguayan">>, <<84, "Ukrainian">>,
       <<85, "Venezuelan">>, <<86, "Welsh">> >>

\* UdpSetting (participants.rs): "Failed to decode UDP setting."
UdpSetting_table ==
    << <<0, "Restricted">>, <<1, "Public">> >>

\* Flag (../nineteen.rs): "Failed to decode flag."
SessionFlag_table ==
    << <<-1, "Invalid">>, <<0, "None">>, <<1, "Green">>, <<2, "Blue">>,
       <<3, "Yellow">>, <<4, "Red">> >>

\* enum Driver (participants.rs): the variants and their discriminants
Driver_enum ==
    << <<"CarlosSainz", 0>>, <<"DaniilKvyat", 1>>, <<"DanielRicciardo", 2>>, <<"KimiRaikkonen", 6>>,
       <<"LewisHamilton", 7>>, <<"MaxVerstappen", 9>>, <<"NicoHulkenburg", 10>>, <<"KevinMagnussen", 11>>,
       <<"RomainGrosjean", 12>>, <<"SebastianVettel", 13>>, <<"SergioPerez", 14>>, <<"ValtteriBottas", 15>>,
       <<"LanceStroll", 19>>, <<"ArronBarnes", 20>>, <<"MartinGiles", 21>>, <<"AlexMurray", 22>>,
       <<"LucasRoth", 23>>, <<"IgorCorreia", 24>>, <<"SophieLevasseur", 25>>, <<"JonasSchiffer", 26>>,
       <<"AlainForest", 27>>, <<"JayLetourneau", 28>>, <<"EstoSaari", 29>>, <<"YasarAtiyeh", 30>>,
       <<"CallistoCalabresi", 31>>, <<"NaotaIzum", 32>>, <<"HowardClarke", 33>>, <<"WilheimKaufmann", 34>>,
       <<"MarieLaursen", 35>>, <<"FlavioNieves", 36>>, <<"PeterBelousov", 37>>, <<"KlimekMichalski", 38>>,
       <<"SantiagoMoreno", 39>>, <<"BenjaminCoppens", 40>>, <<"NoahVisser", 41>>, <<"GertWaldmuller", 42>>,
       <<"JulianQuesada", 43>>, <<"DanielJones", 44>>, <<"ArtemMarkelov", 45>>, <<"TadasukeMakino", 46>>,
       <<"SeanGelael", 47>>, <<"NyckDeVries", 48>>, <<"JackAitken", 49>>, <<"GeorgeRussell", 50>>,
       <<"MaximilianGunther", 51>>, <<"NireiFukuzumi", 52>>, <<"LucaGhiotto", 53>>, <<"LandoNorris", 54>>,
       <<"SergioSetteCamara", 55>>, <<"LouisDeletraz", 56>>, <<"AntonioFuoco", 57>>, <<"CharlesLeclerc", 58>>,
       <<"PierreGasly", 59>>, <<"AlexanderAlbon", 62>>, <<"NicholasLatifi", 63>>, <<"DorianBoccolacci", 64>>,
       <<"NikoKari", 65>>, <<"RobertoMerhi", 66>>, <<"ArjunMaini", 67>>, <<"AlessioLorandi", 68>>,
       <<"RubenMeijer", 69>>, <<"RashidNair", 70>>, <<"JackTremblay", 71>>, <<"AntonioGiovinazzi", 74>>,
       <<"RobertKubica", 75>>, <<"NobuharuMatsushita", 78>>, <<"NikitaMazepin", 79>>, <<"GuanyaZhou", 80>>,
       <<"MickSchumacher", 81>>, <<"CallumIlott", 82>>, <<"JuanManuelCorrea", 83>>, <<"JordanKing", 84>>,
       <<"MahaveerRaghunathan", 85>>, <<"TatianaCalderon", 86>>, <<"AnthoineHubert", 87>>, <<"GuilianoAlesi", 88>>,
       <<"RalphBoschung", 89>> >>

\* enum Team (participants.rs): the variants and their discriminants
Team_enum ==
    << <<"Mercedes", 0>>, <<"Ferrari", 1>>, <<"RedBullRacing", 2>>, <<"Williams", 3>>,
       <<"RacingPoint", 4>>, <<"Renault", 5>>, <<"ToroRosso", 6>>, <<"Haas", 7>>,
       <<"McLaren", 8>>, <<"AlfaRomeo", 9>>, <<"McLaren1988", 10>>, <<"McLaren1991", 11>>,
       <<"Williams1992", 12>>, <<"Ferrari1995", 13>>, <<"Williams1996", 14>>, <<"McLaren1998", 15>>,
       <<"Ferrari2002", 16>>, <<"Ferrari2004", 17>>, <<"Renault2006", 18>>, <<"Ferrari2007", 19>>,
       <<"RedBull2010", 21>>, <<"Ferrari1976", 22>>, <<"ARTGrandPrix", 23>>, <<"CamposVexatecRacing", 24>>,
       <<"Carlin", 25>>, <<"CharouzRacingSystem", 26>>, <<"DAMS", 27>>, <<"RussianTime", 28>>,
       <<"MPMotorsport", 29>>, <<"Pertamina", 30>>, <<"McLaren1990", 31>>, <<"Trident", 32>>,
       <<"BWTArden", 33>>, <<"McLaren1976", 34>>, <<"Lotus1972", 35>>, <<"Ferrari1979", 36>>,
       <<"McLaren1982", 37>>, <<"Williams2003", 38>>, <<"Brawn2009", 39>>, <<"Lotus1978", 40>>,
       <<"ArtGP2019", 42>>, <<"Campos2019", 43>>, <<"Carlin2019", 44>>, <<"SauberJuniorCharouz2019", 45>>,
       <<"Dams2019", 46>>, <<"UniVirtuosi2019", 47>>, <<"MPMotorsport2019", 48>>, <<"Prema2019", 49>>,
       <<"Trident2019", 50>>, <<"Arden2019", 51>>, <<"Ferrari1990", 63>>, <<"McLaren2010", 64>>,
       <<"Ferrari2010", 65>> >>

\* enum Nationality (participants.rs): the variants and their discriminants
Nationality_enum ==
    << <<"American", 1>>, <<"Argentinean", 2>>, <<"Australian", 3>>, <<"Austrian", 4>>,
       <<"Azerbaijani", 5>>, <<"Bahraini", 6>>, <<"Belgian", 7>>, <<"Bolivian", 8>>,
       <<"Brazilian", 9>>, <<"British", 10>>, <<"Bulgarian", 11>>, <<"Cameroonian", 12>>,
       <<"Canadian", 13>>, <<"Chilean", 14>>, <<"Chinese", 15>>, <<"Colombian", 16>>,
       <<"CostaRican", 17>>, <<"Croatian", 18>>, <<"Cypriot", 19>>, <<"Czech", 20>>,
       <<"Danish", 21>>, <<"Dutch", 22>>, <<"Ecuadorian", 23>>, <<"English", 24>>,
       <<"Emirian", 25>>, <<"Estonian", 26>>, <<"Finnish", 27>>, <<"French", 28>>,
       <<"German", 29>>, <<"Ghanaian", 30>>, <<"Greek", 31>>, <<"Guatemalan", 32>>,
       <<"Honduran", 33>>, <<"HongKonger", 34>>, <<"Hungarian", 35>>, <<"Icelander", 36>>,
       <<"Indian", 37>>, <<"Indonesian", 38>>, <<"Irish", 39>>, <<"Israeli", 40>>,
       <<"Italian", 41>>, <<"Jamaican", 42>>, <<"Japanese", 43>>, <<"Jordanian", 44>>,
       <<"Kuwaiti", 45>>, <<"Latvian", 46>>, <<"Lebanese", 47>>, <<"Lithuanian", 48>>,
       <<"Luxembourger", 49>>, <<"Malaysian", 50>>, <<"Maltese", 51>>, <<"Mexican", 52>>,
       <<"Monegasque", 53>>, <<"NewZealander", 54>>, <<"Nicaraguan", 55>>, <<"NorthKorean", 56>>,
       <<"NorthernIrish", 57>>, <<"Norwegian", 58>>, <<"Omani", 59>>, <<"Pakistani", 60>>,
       <<"Panamanian", 61>>, <<"Paraguayan", 62>>, <<"Peruvian", 63>>, <<"Polish", 64>>,
       <<"Portuguese", 65>>, <<"Qatari", 66>>, <<"Romanian", 67>>, <<"Russian", 68>>,
       <<"Salvadoran", 69>>, <<"Saudi", 70>>, <<"Scottish", 71>>, <<"Serbian", 72>>,
       <<"Singaporean", 73>>, <<"Slovakian", 74>>, <<"Slovenian", 75>>, <<"SouthKorean", 76>>,
       <<"SouthAfrican", 77>>, <<"Spanish", 78>>, <<"Swedish", 79>>, <<"Swiss", 80>>,
       <<"Thai", 81>>, <<"Turkish", 82>>, <<"Uruguayan", 83>>, <<"Ukrainian", 84>>,
       <<"Venezuelan", 85>>, <<"Welsh", 86>> >>

\* a match whose last arm returns the variant of the first arm where it should
\* return the error
enum_match_or_first(table, value, msg) ==
    IF \E i \in 1..Len(table) : table[i][1] = value
    THEN LET i == CHOOSE i \in 1..Len(table) :
                      /\ table[i][1] = value
                      /\ \A j \in 1..(i - 1) : table[j][1] # value
         IN  Ok(table[i][2], 0)
    ELSE Ok(table[1][2], 0)

\* a match over the arms of a table: the first arm whose code is the value,
\* and the `_ => Err(InvalidData, msg)` arm otherwise
enum_match(table, value, msg) ==
    IF \E i \in 1..Len(table) : table[i][1] = value
    THEN LET i == CHOOSE i \in 1..Len(table) :
                      /\ table[i][1] = value
                      /\ \A j \in 1..(i - 1) : table[j][1] # value
         IN  Ok(table[i][2], 0)
    ELSE Err("InvalidData", msg, 0)

-----------------------------------------------------------------------------
(* Sequences of cursor reads.  A layout lists the reads of a record in the *)
(* order the source makes them: n the field, t the read, and for an        *)
(* enumerated field its table and error message.                           *)

F(n, t) == [n |-> n, t |-> t, table |-> <<>>, msg |-> ""]

E(n, t, table, msg) == [n |-> n, t |-> t, table |-> table, msg |-> msg]

width(t) ==
    CASE t \in {"u8", "i8", "gt0", "gt1", "enum_u8", "enum_i8"} -> 1
      [] t \in {"u16", "i16"} -> 2
      [] t \in {"u32", "f32"} -> 4

get_i16_le(b, p) ==
    IF get_u16_le(b, p) >= 32768 THEN get_u16_le(b, p) - 65536 ELSE get_u16_le(b, p)

\* one read at p as it would be if every enumerated byte were read with get_u8
read_field_unsigned(f, b, p) ==
    CASE f.t = "u8"  -> Ok(get_u8(b, p), p + 1)
      [] f.t = "i8"  -> Ok(get_i8(b, p), p + 1)
      [] f.t = "gt0" -> Ok(get_u8(b, p) > 0, p + 1)
      [] f.t = "gt1" -> Ok(get_u8(b, p) > 1, p + 1)
      [] f.t = "u16" -> Ok(get_u16_le(b, p), p + 2)
      [] f.t = "i16" -> Ok(get_i16_le(b, p), p + 2)
      [] f.t = "u32" -> Ok(get_u32_le(b, p), p + 4)
      [] f.t = "f32" -> Ok(get_f32_le(b, p), p + 4)
      [] f.t \in {"enum_u8", "enum_i8"} ->
            LET r == enum_match(f.table, get_u8(b, p), f.msg)
            IN  IF r.tag = "Ok" THEN Ok(r.val, p + 1) ELSE Err(r.kind, r.msg, p + 1)

\* one read at p as it would be if a lap were valid from a validity byte of 1
\* on (`> 0`)
read_field_valid_from_one(f, b, p) ==
    CASE f.t = "u8"  -> Ok(get_u8(b, p), p + 1)
      [] f.t = "i8"  -> Ok(get_i8(b, p), p + 1)
      [] f.t \in {"gt0", "gt1"} -> Ok(get_u8(b, p) > 0, p + 1)
      [] f.t = "u16" -> Ok(get_u16_le(b, p), p + 2)
      [] f.t = "i16" -> Ok(get_i16_le(b, p), p + 2)
      [] f.t = "u32" -> Ok(get_u32_le(b, p), p + 4)
      [] f.t = "f32" -> Ok(get_f32_le(b, p), p + 4)
      [] f.t = "enum_u8" ->
            LET r == enum_match(f.table, get_u8(b, p), f.msg)
            IN  IF r.tag = "Ok" THEN Ok(r.val, p + 1) ELSE Err(r.kind, r.msg, p + 1)
      [] f.t = "enum_i8" ->
            LET r == enum_match(f.table, get_i8(b, p), f.msg)
            IN  IF r.tag = "Ok" THEN Ok(r.val, p + 1) ELSE Err(r.kind, r.msg, p + 1)

\* one read at p (the caller has checked that width(f.t) bytes remain)
read_field(f, b, p) ==
    CASE f.t = "u8"  -> Ok(get_u8(b, p), p + 1)
      [] f.t = "i8"  -> Ok(get_i8(b, p), p + 1)
      [] f.t = "gt0" -> Ok(get_u8(b, p) > 0, p + 1)
      [] f.t = "gt1" -> Ok(get_u8(b, p) > 1, p + 1)
      [] f.t = "u16" -> Ok(get_u16_le(b, p), p + 2)
      [] f.t = "i16" -> Ok(get_i16_le(b, p), p + 2)
      [] f.t = "u32" -> Ok(get_u32_le(b, p), p + 4)
      [] f.t = "f32" -> Ok(get_f32_le(b, p), p + 4)
      [] f.t = "enum_u8" ->
            LET r == enum_match(f.table, get_u8(b, p), f.msg)
            IN  IF r.tag = "Ok" THEN Ok(r.val, p + 1) ELSE Err(r.kind, r.msg, p + 1)
      [] f.t = "enum_i8" ->
            LET r == enum_match(f.table, get_i8(b, p), f.msg)
            IN  IF r.tag = "Ok" THEN Ok(r.val, p + 1) ELSE Err(r.kind, r.msg, p + 1)

EmptyRecord == [x \in {} |-> 0]

\* the reads layout[i..] in order: the first read past the end of the buffer
\* panics, the first failed enumerated field returns its error (the `?`)
RECURSIVE decode_fields(_, _, _, _, _)
decode_fields(b, p, layout, i, acc) ==
    IF i > Len(layout) THEN Ok(acc, p)
    ELSE IF remaining(b, p) < width(layout[i].t) THEN Panic
    ELSE LET field(r) ==
                 IF r.tag # "Ok" THEN r
                 ELSE decode_fields(b, r.pos, layout, i + 1,
                                    (layout[i].n :> r.val) @@ acc)
         IN  field(read_field(layout[i], b, p))

\* `for _ in 0..n { v.push(<record>) }`
RECURSIVE decode_records(_, _, _, _, _)
decode_records(b, p, layout, n, acc) ==
    IF n = 0 THEN Ok(acc, p)
    ELSE LET push(r) ==
                 IF r.tag # "Ok" THEN r
                 ELSE decode_records(b, r.pos, layout, n - 1, Append(acc, r.val))
         IN  push(decode_fields(b, p, layout, 1, EmptyRecord))


-----------------------------------------------------------------------------
(* Record layouts of the per-packet-type decoders *)

\* the reads of one car in decode_motion
Motion_layout ==
    << F("position_x", "f32"),
       F("position_y", "f32"),
       F("position_z", "f32"),
       F("velocity_x", "f32"),
       F("velocity_y", "f32"),
       F("velocity_z", "f32"),
       F("forward_direction_x", "i16"),
       F("forward_direction_y", "i16"),
       F("forward_direction_z", "i16"),
       F("right_direction_x", "i16"),
       F("right_direction_y", "i16"),
       F("right_direction_z", "i16"),
       F("g_force_x", "f32"),
       F("g_force_y", "f32"),
       F("g_force_z", "f32"),
       F("yaw", "f32"),
       F("pitch", "f32"),
       F("roll", "f32") >>

\* the reads of decode_motion after the cars
MotionExtra_layout ==
    << F("suspension_position_front_left", "f32"),
       F("suspension_position_front_right", "f32"),
       F("suspension_position_rear_left", "f32"),
       F("suspension_position_rear_right", "f32"),
       F("suspension_velocity_front_left", "f32"),
       F("suspension_velocity_front_right", "f32"),
       F("suspension_velocity_rear_left", "f32"),
       F("suspension_velocity_rear_right", "f32"),
       F("suspension_acceleration_front_left", "f32"),
       F("suspension_acceleration_front_right", "f32"),
       F("suspension_acceleration_rear_left", "f32"),
       F("suspension_acceleration_rear_right", "f32"),
       F("wheel_speed_front_left", "f32"),
       F("wheel_speed_front_right", "f32"),
       F("wheel_speed_rear_left", "f32"),
       F("wheel_speed_rear_right", "f32"),
       F("wheel_slip_front_left", "f32"),
       F("wheel_slip_front_right", "f32"),
       F("wheel_slip_rear_left", "f32"),
       F("wheel_slip_rear_right", "f32"),
       F("local_velocity_x", "f32"),
       F("local_velocity_y", "f32"),
       F("local_velocity_z", "f32"),
       F("angular_velocity_x", "f32"),
       F("angular_velocity_y", "f32"),
       F("angular_velocity_z", "f32"),
       F("angular_acceleration_x", "f32"),
       F("angular_acceleration_y", "f32"),
       F("angular_acceleration_z", "f32"),
       F("front_wheels_angle", "f32") >>

\* the reads of one car in decode_setups
CarSetup_layout ==
    << F("front_wing", "u8"),
       F("rear_wing", "u8"),
       F("on_throttle", "u8"),
       F("off_throttle", "u8"),
       F("front_camber", "f32"),
       F("rear_camber", "f32"),
       F("front_toe", "f32"),
       F("rear_toe", "f32"),
       F("front_suspension", "u8"),
       F("rear_suspension", "u8"),
       F("front_anti_roll_bar", "u8"),
       F("rear_anti_roll_bar", "u8"),
       F("front_suspension_height", "u8"),
       F("rear_suspension_height", "u8"),
       F("brake_pressure", "u8"),
       F("brake_bias", "u8"),
       F("front_tyre_pressure", "f32"),
       F("rear_tyre_pressure", "f32"),
       F("ballast", "u8"),
       F("fuel_load", "f32") >>

\* the reads of one car in decode_statuses
CarStatus_layout ==
    << E("traction_control", "enum_u8", TractionControl_table,
         "Failed to decode transaction control."),
       F("abs", "gt0"),
       E("fuel_mix", "enum_u8", FuelMix_table,
         "Failed to decode fuel mix."),
       F("brake_bias", "u8"),
       F("pit_limiter", "gt0"),
       F("fuel_remaining", "f32"),
       F("fuel_capacity", "f32"),
       F("fuel_remaining_laps", "f32"),
       F("max_rpm", "u16"),
       F("idle_rpm", "u16"),
       F("gear_count", "u8"),
       E("drs", "enum_i8", DrsSetting_table,
         "Failed to decode DRS status."),
       F("tyre_wear_front_left", "u8"),
       F("tyre_wear_front_right", "u8"),
       F("tyre_wear_rear_left", "u8"),
       F("tyre_wear_rear_right", "u8"),
       E("physical_tyre_compound", "enum_u8", PhysicalTyreCompound_table,
         "Failed to decode physical tyre compound."),
       E("visual_tyre_compound", "enum_u8", VisualTyreCompound_table,
         "Failed to decode visual tyre compound."),
       F("tyre_damage_front_left", "u8"),
       F("tyre_damage_front_right", "u8"),
       F("tyre_damage_rear_left", "u8"),
       F("tyre_damage_rear_right", "u8"),
       F("front_left_wing_damage", "u8"),
       F("front_right_wing_damage", "u8"),
       F("rear_wing_damage", "u8"),
       F("engine_damage", "u8"),
       F("gear_box_damage", "u8"),
       E("vehicle_flags", "enum_i8", Flag_table,
         "Failed to decode flag."),
       F("ers_energy", "f32"),
       E("ers_deploy_mode", "enum_u8", ErsDeployMode_table,
         "Failed to decode ERS deployment mode."),
       F("ers_harvest_mgu_k", "f32"),
       F("ers_harvest_mgu_h", "f32"),
       F("ers_deployed", "f32") >>

\* the reads of one car in decode_telemetry
Telemetry_layout ==
    << F("speed", "u16"),
       F("throttle", "f32"),
       F("steering", "f32"),
       F("brake", "f32"),
       F("clutch", "u8"),
       E("gear", "enum_i8", Gear_table,
         "Failed to decode gear."),
       F("engine_rpm", "u16"),
       F("drs", "gt0"),
       F("rev_lights", "u8"),
       F("brake_temperature_front_left", "u16"),
       F("brake_temperature_front_right", "u16"),
       F("brake_temperature_rear_left", "u16"),
       F("brake_temperature_rear_right", "u16"),
       F("tyre_surface_temperature_front_left", "u16"),
       F("tyre_surface_temperature_front_right", "u16"),
       F("tyre_surface_temperature_rear_left", "u16"),
       F("tyre_surface_temperature_rear_right", "u16"),
       F("tyre_inner_temperature_front_left", "u16"),
       F("tyre_inner_temperature_front_right", "u16"),
       F("tyre_inner_temperature_rear_left", "u16"),
       F("tyre_inner_temperature_rear_right", "u16"),
       F("engine_temperature", "u16"),
       F("tyre_pressure_front_left", "f32"),
       F("tyre_pressure_front_right", "f32"),
       F("tyre_pressure_rear_left", "f32"),
       F("tyre_pressure_rear_right", "f32"),
       E("surface_type_front_left", "enum_u8", Surface_table,
         "Failed to decode surface."),
       E("surface_type_front_right", "enum_u8", Surface_table,
         "Failed to decode surface."),
       E("surface_type_rear_left", "enum_u8", Surface_table,
         "Failed to decode surface."),
       E("surface_type_rear_right", "enum_u8", Surface_table,
         "Failed to decode surface.") >>

\* the reads of one car in LapPacket::decode
Lap_layout ==
    << F("last_lap_time", "f32"),
       F("current_lap_time", "f32"),
       F("best_lap_time", "f32"),
       F("sector1_time", "f32"),
       F("sector2_time", "f32"),
       F("lap_distance", "f32"),
       F("total_distance", "f32"),
       F("safety_car_delta", "f32"),
       F("position", "u8"),
       F("current_lap_number", "u8"),
       E("pit_status", "enum_u8", PitStatus_table,
         "Failed to decode pit status."),
       E("sector", "enum_u8", Sector_table,
         "Failed to decode sector."),
       F("is_lap_valid", "gt1"),
       F("penalties", "u8"),
       F("grid_position", "u8"),
       E("driver_status", "enum_u8", DriverStatus_table,
         "Failed to decode driver status."),
       E("result_status", "enum_u8", ResultStatus_table,
         "Failed to decode result status.") >>

\* the reads of SessionPacket::decode between the header and the marshal zones
SessionHead_layout ==
    << E("weather", "enum_u8", Weather_table,
         "Failed to decode weather."),
       F("track_temperature", "i8"),
       F("air_temperature", "i8"),
       F("total_laps", "u8"),
       F("track_length", "u16"),
       E("session_type", "enum_u8", Session_table,
         "Failed to decode session."),
       E("track", "enum_i8", Track_table,
         "Failed to decode track."),
       E("formula", "enum_u8", Formula_table,
         "Failed to decode formula."),
       F("time_left", "u16"),
       F("duration", "u16"),
       F("pit_speed_limit", "u8"),
       F("game_paused", "gt0"),
       F("is_spectating", "gt0"),
       F("spectator_car_index", "u8"),
       F("sli_pro_support", "gt0"),
       F("marshal_zone_count", "u8") >>

\* the reads of one marshal zone in SessionPacket::decode
MarshalZone_layout ==
    << F("start", "f32"),
       E("flag", "enum_i8", SessionFlag_table,
         "Failed to decode flag.") >>

\* the reads of SessionPacket::decode after the marshal zones
SessionTail_layout ==
    << E("safety_car", "enum_u8", SafetyCar_table,
         "Failed to decode safety car."),
       F("network_session", "gt0") >>

\* the reads of one participant before its name in ParticipantsPacket::decode
ParticipantHead_layout ==
    << E("controller", "enum_u8", Controller_table,
         "Failed to decode controller."),
       E("driver", "enum_u8", Driver_table,
         "Failed to decode driver."),
       E("team", "enum_u8", Team_table,
         "Failed to decode team."),
       F("race_number", "u8"),
       E("nationality", "enum_u8", Nationality_table,
         "Failed to decode nationality.") >>

\* the read of one participant after its name in ParticipantsPacket::decode
ParticipantTail_layout ==
    << E("telemetry", "enum_u8", UdpSetting_table,
         "Failed to decode UDP setting.") >>

-----------------------------------------------------------------------------
(* Per-packet-type decoders *)

CARS == 20

\* crate::packet::ensure_packet_size is called by decode_motion, decode_setups,
\* decode_statuses and decode_telemetry; its definition is not among the
\* sources.  Modelled from the specification: a buffer shorter than the
\* declared size is "need more data".
ensure_packet_size(expected_size, b, p) ==
    IF remaining(b, p) < expected_size
    THEN Err("UnexpectedEof", "Packet is too small.", p)
    ELSE Ok(TRUE, p)

\* Button::from_bits: None when a bit outside the named buttons is set, and
\* decode_telemetry turns None into Button::NONE
Button_ALL == 32767

button_status(bits) ==
    IF bits.hi = 0 /\ bits.lo <= Button_ALL THEN bits.lo ELSE 0

\* nineteen/motion.rs
decode_motion(b, p) ==
    LET packet(header, cars, extra) ==
            IF extra.tag # "Ok" THEN extra
            ELSE Ok([kind |-> "Motion", header |-> header.val, cars |-> cars.val,
                     extra |-> extra.val], extra.pos)
        motion(header, cars) ==
            IF cars.tag # "Ok" THEN cars
            ELSE packet(header, cars,
                        decode_fields(b, cars.pos, MotionExtra_layout, 1, EmptyRecord))
        body(header) ==
            IF header.tag # "Ok" THEN header
            ELSE motion(header,
                        decode_records(b, header.pos, Motion_layout, CARS, <<>>))
        sized(size) ==
            IF size.tag # "Ok" THEN size ELSE body(decode_header(b, p))
    IN  sized(ensure_packet_size(1343, b, p))

\* nineteen/setup.rs
decode_setups(b, p) ==
    LET packet(header, setups) ==
            IF setups.tag # "Ok" THEN setups
            ELSE Ok([kind |-> "Setup", header |-> header.val,
                     setups |-> setups.val], setups.pos)
        body(header) ==
            IF header.tag # "Ok" THEN header
            ELSE packet(header,
                        decode_records(b, header.pos, CarSetup_layout, CARS, <<>>))
        sized(size) ==
            IF size.tag # "Ok" THEN size ELSE body(decode_header(b, p))
    IN  sized(ensure_packet_size(843, b, p))

\* nineteen/status.rs
decode_statuses(b, p) ==
    LET packet(header, car_status) ==
            IF car_status.tag # "Ok" THEN car_status
            ELSE Ok([kind |-> "Status", header |-> header.val,
                     statuses |-> car_status.val], car_status.pos)
        body(header) ==
            IF header.tag # "Ok" THEN header
            ELSE packet(header,
                        decode_records(b, header.pos, CarStatus_layout, CARS, <<>>))
        sized(size) ==
            IF size.tag # "Ok" THEN size ELSE body(decode_header(b, p))
    IN  sized(ensure_packet_size(1143, b, p))

\* nineteen/telemetry.rs
decode_telemetry(b, p) ==
    LET packet(header, telemetry) ==
            IF telemetry.tag # "Ok" THEN telemetry
            ELSE IF remaining(b, telemetry.pos) < 4 THEN Panic
            ELSE Ok([kind |-> "Telemetry", header |-> header.val,
                     telemetry |-> telemetry.val,
                     button_status |-> button_status(get_u32_le(b, telemetry.pos))],
                    telemetry.pos + 4)
        body(header) ==
            IF header.tag # "Ok" THEN header
            ELSE packet(header,
                        decode_records(b, header.pos, Telemetry_layout, CARS, <<>>))
        sized(size) ==
            IF size.tag # "Ok" THEN size ELSE body(decode_header(b, p))
    IN  sized(ensure_packet_size(1347, b, p))

\* nineteen/lap.rs: impl FromBytes for LapPacket, decode
LapPacket_decode(b, p) ==
    LET packet(header, laps) ==
            IF laps.tag # "Ok" THEN laps
            ELSE Ok([kind |-> "Lap", header |-> header.val, laps |-> laps.val],
                    laps.pos)
        body(header) ==
            IF header.tag # "Ok" THEN header
            ELSE packet(header, decode_records(b, header.pos, Lap_layout, CARS, <<>>))
    IN  body(PacketHeader_decode(b, p))

\* SessionPacket::decode as it would be if it read the 21 marshal zones the
\* packet has room for, whatever the count says
SessionPacket_decode_every_zone(b, p) ==
    LET packet(header, head, marshal_zones, tail) ==
            IF tail.tag # "Ok" THEN tail
            ELSE Ok([kind |-> "Session", header |-> header.val,
                     fields |-> head.val,
                     marshal_zones |-> marshal_zones.val,
                     safety_car |-> tail.val.safety_car,
                     network_session |-> tail.val.network_session], tail.pos)
        zones(header, head, marshal_zones) ==
            IF marshal_zones.tag # "Ok" THEN marshal_zones
            ELSE packet(header, head, marshal_zones,
                        decode_fields(b, marshal_zones.pos, SessionTail_layout, 1,
                                      EmptyRecord))
        session(header, head) ==
            IF head.tag # "Ok" THEN head
            ELSE zones(header, head,
                       decode_records(b, head.pos, MarshalZone_layout,
                                      21, <<>>))
        body(header) ==
            IF header.tag # "Ok" THEN header
            ELSE session(header,
                         decode_fields(b, header.pos, SessionHead_layout, 1,
                                       EmptyRecord))
    IN  body(PacketHeader_decode(b, p))

\* nineteen/session.rs: impl FromBytes for SessionPacket, decode
SessionPacket_decode(b, p) ==
    LET packet(header, head, marshal_zones, tail) ==
            IF tail.tag # "Ok" THEN tail
            ELSE Ok([kind |-> "Session", header |-> header.val,
                     fields |-> head.val,
                     marshal_zones |-> marshal_zones.val,
                     safety_car |-> tail.val.safety_car,
                     network_session |-> tail.val.network_session], tail.pos)
        zones(header, head, marshal_zones) ==
            IF marshal_zones.tag # "Ok" THEN marshal_zones
            ELSE packet(header, head, marshal_zones,
                        decode_fields(b, marshal_zones.pos, SessionTail_layout, 1,
                                      EmptyRecord))
        session(header, head) ==
            IF head.tag # "Ok" THEN head
            ELSE zones(header, head,
                       decode_records(b, head.pos, MarshalZone_layout,
                                      head.val.marshal_zone_count, <<>>))
        body(header) ==
            IF header.tag # "Ok" THEN header
            ELSE session(header,
                         decode_fields(b, header.pos, SessionHead_layout, 1,
                                       EmptyRecord))
    IN  body(PacketHeader_decode(b, p))

NAME_SIZE == 40

\* ParticipantsPacket::decode_name: at most 40 reads, and it stops reading
\* after the first NUL
RECURSIVE decode_name(_, _, _, _)
decode_name(b, p, k, letters) ==
    IF k = NAME_SIZE THEN Ok(letters, p)
    ELSE IF remaining(b, p) < 1 THEN Panic
    ELSE IF get_u8(b, p) = 0 THEN Ok(letters, p + 1)
    ELSE decode_name(b, p + 1, k + 1, Append(letters, get_u8(b, p)))

\* one pass of the loop of ParticipantsPacket::decode
decode_participant(b, p) ==
    LET participant(head, name, tail) ==
            IF tail.tag # "Ok" THEN tail
            ELSE Ok(("name" :> name.val) @@ head.val @@ tail.val, tail.pos)
        named(head, name) ==
            IF name.tag # "Ok" THEN name
            ELSE participant(head, name,
                             decode_fields(b, name.pos, ParticipantTail_layout, 1,
                                           EmptyRecord))
        driver(head) ==
            IF head.tag # "Ok" THEN head
            ELSE named(head, decode_name(b, head.pos, 0, <<>>))
    IN  driver(decode_fields(b, p, ParticipantHead_layout, 1, EmptyRecord))

RECURSIVE decode_participants(_, _, _, _)
decode_participants(b, p, n, acc) ==
    IF n = 0 THEN Ok(acc, p)
    ELSE LET push(r) ==
                 IF r.tag # "Ok" THEN r
                 ELSE decode_participants(b, r.pos, n - 1, Append(acc, r.val))
         IN  push(decode_participant(b, p))

\* nineteen/participants.rs: impl FromBytes for ParticipantsPacket, decode
ParticipantsPacket_decode(b, p) ==
    LET packet(header, participants) ==
            IF participants.tag # "Ok" THEN participants
            ELSE Ok([kind |-> "Participants", header |-> header.val,
                     participants |-> participants.val], participants.pos)
        body(header) ==
            IF header.tag # "Ok" THEN header
            ELSE IF remaining(b, header.pos) < 1 THEN Panic
            ELSE packet(header,
                        decode_participants(b, header.pos + 1,
                                            get_u8(b, header.pos), <<>>))
    IN  body(PacketHeader_decode(b, p))


-----------------------------------------------------------------------------
(* src/src/nineteen/event.rs *)

\* the arms of the match of EventPacket::decode, in order: the event code as
\* its four ASCII bytes, the variant of Event, and what the decoder of that arm
\* reads after the header
Event_table ==
    << << <<83, 83, 84, 65>>, "SessionStarted",  "none" >>,
       << <<83, 69, 78, 68>>, "SessionEnded",    "none" >>,
       << <<70, 84, 76, 80>>, "FastestLap",      "vehicle_lap" >>,
       << <<82, 84, 77, 84>>, "Retirement",      "vehicle" >>,
       << <<68, 82, 83, 69>>, "DrsEnabled",      "none" >>,
       << <<68, 82, 83, 68>>, "DrsDisabled",     "none" >>,
       << <<84, 77, 80, 84>>, "TeammatesInPits", "vehicle" >>,
       << <<67, 72, 81, 70>>, "ChequeredFlag",   "none" >>,
       << <<82, 67, 87, 78>>, "RaceWinner",      "vehicle" >> >>

\* EventPacket::peek_event_code: set_position(23), four get_u8, and
\* set_position(0)
peek_event_code(b, p) ==
    IF remaining(b, HEADER_SIZE) < 4 THEN Panic
    ELSE Ok(SubSeq(b, HEADER_SIZE + 1, HEADER_SIZE + 4), 0)

\* EventPacket::decode_session_started .. decode_race_winner of the arm
\* `arm`: PacketHeader::decode(cursor)?, then the reads of the payload from
\* where the header decoder left the cursor
decode_event(b, p, arm) ==
    LET event(header) ==
            IF header.tag # "Ok" THEN header
            ELSE CASE arm[3] = "none" ->
                          Ok([kind |-> "Event", header |-> header.val,
                              event |-> [variant |-> arm[2]]], header.pos)
                   [] arm[3] = "vehicle" ->
                          IF remaining(b, header.pos) < 1 THEN Panic
                          ELSE Ok([kind |-> "Event", header |-> header.val,
                                   event |-> [variant |-> arm[2],
                                              vehicle_index |-> get_u8(b, header.pos)]],
                                  header.pos + 1)
                   [] arm[3] = "vehicle_lap" ->
                          IF remaining(b, header.pos) < 5 THEN Panic
                          ELSE Ok([kind |-> "Event", header |-> header.val,
                                   event |-> [variant |-> arm[2],
                                              vehicle_index |-> get_u8(b, header.pos),
                                              lap_time |-> get_f32_le(b, header.pos + 1)]],
                                  header.pos + 5)
    IN  event(PacketHeader_decode(b, p))

\* impl FromBytes for EventPacket: decode
EventPacket_decode(b, p) ==
    LET dispatch(event_code) ==
            IF event_code.tag # "Ok" THEN event_code
            ELSE IF \E i \in 1..Len(Event_table) : Event_table[i][1] = event_code.val
            THEN decode_event(b, event_code.pos,
                              Event_table[CHOOSE i \in 1..Len(Event_table) :
                                              Event_table[i][1] = event_code.val])
            ELSE Err("InvalidData", "Unexpected event code", event_code.pos)
    IN  dispatch(peek_event_code(b, p))

-----------------------------------------------------------------------------
(* src/src/packet.rs: trait FromBytes; src/src/nineteen.rs: Packet *)

\* buffer_size as it would be if an event packet were sized by the shortest
\* event, the header and the code
buffer_size_of_shortest(T) ==
    CASE T = "Packet"       -> 6
      [] T = "PacketHeader" -> HEADER_SIZE
      [] T = "Motion"       -> 1343
      [] T = "Session"      -> 149
      [] T = "Lap"          -> 843
      [] T = "Participants" -> 1104
      [] T = "Setup"        -> 843
      [] T = "Telemetry"    -> 1347
      [] T = "Status"       -> 1143
      [] T = "Event"        -> HEADER_SIZE + 4

\* FromBytes::buffer_size of each implementor
buffer_size(T) ==
    CASE T = "Packet"       -> 6
      [] T = "PacketHeader" -> HEADER_SIZE
      [] T = "Motion"       -> 1343
      [] T = "Session"      -> 149
      [] T = "Lap"          -> 843
      [] T = "Participants" -> 1104
      [] T = "Setup"        -> 843
      [] T = "Telemetry"    -> 1347
      [] T = "Status"       -> 1143
      [] T = "Event"        -> 32

\* Self::decode of the implementors of FromBytes (for a motion, setup, status
\* or telemetry packet the decode_* function of its module)
decode(T, b, p) ==
    CASE T = "PacketHeader" -> PacketHeader_decode(b, p)
      [] T = "Motion"       -> decode_motion(b, p)
      [] T = "Session"      -> SessionPacket_decode(b, p)
      [] T = "Lap"          -> LapPacket_decode(b, p)
      [] T = "Participants" -> ParticipantsPacket_decode(b, p)
      [] T = "Setup"        -> decode_setups(b, p)
      [] T = "Telemetry"    -> decode_telemetry(b, p)
      [] T = "Status"       -> decode_statuses(b, p)
      [] T = "Event"        -> EventPacket_decode(b, p)

\* from_bytes as it would be with a size check that only refuses a buffer
\* that is too short
from_bytes_at_least(T, b, p) ==
    IF remaining(b, p) < buffer_size(T)
    THEN Err("UnexpectedEof", "Packet is expected to have another size.", p)
    ELSE decode(T, b, p)

\* FromBytes::from_bytes: the size check, then Self::decode
from_bytes(T, b, p) ==
    IF remaining(b, p) # buffer_size(T)
    THEN Err("UnexpectedEof", "Packet is expected to have another size.", p)
    ELSE decode(T, b, p)

\* Packet::peek_packet_id: set_position(5), read the type, and on success
\* set_position(0); the `?` returns before the cursor is put back
peek_packet_id(b, p) ==
    IF remaining(b, 5) < 1 THEN Panic
    ELSE LET packet_type == PacketType_try_from(get_u8(b, 5))
         IN  IF packet_type.tag = "Err"
             THEN Err(packet_type.kind, packet_type.msg, 6)
             ELSE Ok(packet_type.val, 0)

\* impl FromBytes for Packet: decode.  Every arm of the match is
\* X::from_bytes(cursor) of the packet type it names; there is no arm for an
\* event packet.
Packet_decode(b, p) ==
    LET packet_type == peek_packet_id(b, p)
    IN  IF packet_type.tag # "Ok" THEN packet_type
        ELSE CASE packet_type.val \in {"Motion", "Session", "Lap", "Participants",
                                       "Setup", "Telemetry", "Status"} ->
                      from_bytes(packet_type.val, b, packet_type.pos)

\* FromBytes::from_bytes as Packet inherits it: the size check against
\* Packet::buffer_size, then Packet::decode
Packet_from_bytes(b, p) ==
    IF remaining(b, p) # buffer_size("Packet")
    THEN Err("UnexpectedEof", "Packet is expected to have another size.", p)
    ELSE Packet_decode(b, p)

-----------------------------------------------------------------------------
(* src/src/codec.rs *)

\* what F1Codec::decode returns
None == [tag |-> "None"]

Some(packet) == [tag |-> "Some", packet |-> packet]

Failed(e) == [tag |-> "Err", kind |-> e.kind, msg |-> e.msg]

\* F1Codec::decode past its length guard as it would be if the error arm of
\* the match cleared the buffer as the success arm does
decode_packet_dropping_corrupt(b) ==
    LET result(packet) ==
            CASE packet.tag = "Ok" -> [ret |-> Some(packet.val), src |-> <<>>]
              [] packet.tag = "Err" ->
                     IF packet.kind = "UnexpectedEof"
                     THEN [ret |-> None, src |-> b]
                     ELSE [ret |-> Failed(packet), src |-> <<>>]
              [] packet.tag = "Panic" -> [ret |-> Panic, src |-> b]
    IN  result(IF get_u16_le(b, 0) = 2019
               THEN Packet_from_bytes(b, 2)
               ELSE Err("InvalidData", "Unknown packet format.", 2))

\* F1Codec::decode past its length guard: the match on the packet format,
\* then the match on what the packet decoder returned.  The cursor has read
\* the format and stands at 2.
decode_packet(b) ==
    LET result(packet) ==
            CASE packet.tag = "Ok" -> [ret |-> Some(packet.val), src |-> <<>>]
              [] packet.tag = "Err" ->
                     IF packet.kind = "UnexpectedEof"
                     THEN [ret |-> None, src |-> b]
                     ELSE [ret |-> Failed(packet), src |-> b]
              [] packet.tag = "Panic" -> [ret |-> Panic, src |-> b]
    IN  result(IF get_u16_le(b, 0) = 2019
               THEN Packet_from_bytes(b, 2)
               ELSE Err("InvalidData", "Unknown packet format.", 2))

\* F1Codec::decode as it would be with a length guard of one byte: the read
\* of the format then panics on a buffer of one byte
F1Codec_decode_one_byte(b) ==
    IF remaining(b, 0) < 1 THEN [ret |-> None, src |-> b]
    ELSE IF remaining(b, 0) < 2 THEN [ret |-> Panic, src |-> b]
    ELSE decode_packet(b)

\* F1Codec::decode: the value it returns and the buffer it leaves
F1Codec_decode(b) ==
    IF remaining(b, 0) < 2 THEN [ret |-> None, src |-> b]
    ELSE decode_packet(b)


-----------------------------------------------------------------------------
(* The transport and the datagrams it delivers.  The header bytes are those *)
(* of put_packet_header in the tests; the packet kinds and their sizes are  *)
(* the game's.                                                              *)

Byte == 0..255

u16_le(v) == <<v % 256, v \div 256>>

U64_MAX_le == <<255, 255, 255, 255, 255, 255, 255, 255>>

U32_MAX_le == <<255, 255, 255, 255>>

\* 1.0f32, little-endian
F32_ONE_le == <<0, 0, 128, 63>>

put_packet_header(format, major, minor, packet_version, type, uid, time, frame, index) ==
    u16_le(format) \o <<major, minor, packet_version, type>> \o uid \o time
        \o frame \o <<index>>

\* size in bytes of the packet with the given type byte (the F1 2019 UDP
\* specification); 32 stands in for a type byte the game does not send
DeclaredSize(type) ==
    CASE type = 0 -> 1343
      [] type = 1 -> 149
      [] type = 2 -> 843
      [] type = 3 -> 32
      [] type = 4 -> 1104
      [] type = 5 -> 843
      [] type = 6 -> 1347
      [] type = 7 -> 1143
      [] OTHER -> 32

\* the packet kind of a type byte (the F1 2019 UDP specification)
KindOf(type) ==
    CASE type = 0 -> "Motion"
      [] type = 1 -> "Session"
      [] type = 2 -> "Lap"
      [] type = 3 -> "Event"
      [] type = 4 -> "Participants"
      [] type = 5 -> "Setup"
      [] type = 6 -> "Telemetry"
      [] type = 7 -> "Status"

\* byte k of the body of a packet as the game sends it when no car is
\* active: zero, but for the two tyre compounds of a car status (codes 7..20)
\* and the code of an event ("SSTA")
body_byte(type, k) ==
    CASE type = 7 /\ k < 1120 /\ (k % 56) \in {27, 28} -> 7
      [] type = 3 /\ k < 4 -> <<83, 83, 84, 65>>[k + 1]
      [] OTHER -> 0

\* the packet types whose body starts a record with an enumerated byte, and
\* the offset of such a byte in the body: the weather of a session, the code
\* of an event, the traction control of the first car status, and the gear of
\* the first car's telemetry
EnumTypes == {1, 3, 6, 7}

enum_offset(type) == IF type = 6 THEN 15 ELSE 0

\* a datagram of len bytes; `bad` puts a code that no enumeration has (99) in
\* the enumerated byte
Datagram(format, type, bad, len) ==
    LET header == put_packet_header(format, 1, 2, 3, type, U64_MAX_le,
                                    F32_ONE_le, U32_MAX_le, 0)
    IN  [i \in 1..len |->
            IF i <= HEADER_SIZE THEN header[i]
            ELSE IF bad /\ i - HEADER_SIZE - 1 = enum_offset(type) THEN 99
            ELSE body_byte(type, i - HEADER_SIZE - 1)]

MaxTypeByte == 8

MaxExtra == 1

MaxPiecewise == 9

\* the supported format, another year, and 2019 with its bytes swapped
Formats == {2019, 2018, 58119}

Datagrams ==
    { Datagram(format, type, bad, DeclaredSize(type) + extra) :
        format \in Formats, type \in 0..MaxTypeByte, bad \in BOOLEAN,
        extra \in 0..MaxExtra }

Idle == [tag |-> "Idle"]

Snapshot == [src |-> src, pos |-> pos, op |-> op, ret |-> ret]

Init ==
    /\ src = <<>>
    /\ pos = 0
    /\ wire \in Datagrams
    /\ op = "init"
    /\ ret = Idle
    /\ pre = [src |-> <<>>, pos |-> 0, op |-> "init", ret |-> Idle]

\* the transport appends the next n bytes of the datagram to the buffer: byte
\* by byte at the start of the datagram, and then all that is left, or all
\* but the last byte
Receive ==
    \E n \in {1, Len(wire) - 1, Len(wire)} :
        /\ n >= 1
        /\ n <= Len(wire)
        /\ n = 1 => (Len(wire) = 1 \/ Len(src) < MaxPiecewise)
        /\ src' = src \o SubSeq(wire, 1, n)
        /\ wire' = SubSeq(wire, n + 1, Len(wire))
        /\ op' = "receive"
        /\ pre' = Snapshot
        /\ UNCHANGED <<pos, ret>>

\* the transport offers the buffer to the codec
Decode ==
    /\ ret.tag # "Panic"
    /\ LET r == F1Codec_decode(src)
       IN  /\ src' = r.src
           /\ ret' = r.ret
    /\ op' = "decode"
    /\ pre' = Snapshot
    /\ UNCHANGED <<pos, wire>>

Next == Receive \/ Decode

Spec == Init /\ [][Next]_vars

-----------------------------------------------------------------------------
(* Direct calls of the header decoders and of the dispatcher on a cursor    *)
(* over a buffer, as the codec, the packet decoders and the tests make them *)

\* session times, as little-endian f32: 0.0, 1.0, 1.5, 3600.5, 2^40, -1.0,
\* a NaN, +infinity, -0.0 and 2^64
Times ==
    { <<0, 0, 0, 0>>, F32_ONE_le, <<0, 0, 192, 63>>, <<0, 8, 97, 69>>,
      <<0, 0, 128, 83>>, <<0, 0, 128, 191>>, <<0, 0, 192, 127>>,
      <<0, 0, 128, 127>>, <<0, 0, 0, 128>>, <<0, 0, 128, 95>> }

\* the header of tests::decode_header with every format and every type byte,
\* and headers of a telemetry packet that vary the other fields
Headers ==
    { put_packet_header(format, 1, 2, 3, type, U64_MAX_le, F32_ONE_le,
                        U32_MAX_le, 0) : format \in Formats, type \in Byte }
    \cup
    { put_packet_header(format, version[1], version[2], 3, 6, uid, time, frame,
                        index) :
        format \in {2019, 2018}, version \in {<<1, 2>>, <<255, 0>>},
        uid \in {U64_MAX_le, <<1, 2, 3, 4, 5, 6, 7, 8>>}, time \in Times,
        frame \in {U32_MAX_le, <<1, 0, 2, 0>>}, index \in {0, 19} }

\* the buffers the decoders are called on: a header cut short, whole, or
\* followed by the first bytes of a body, and the datagrams of the transport
Buffers ==
    { SubSeq(h, 1, n) : h \in Headers, n \in {5, 8, 22, HEADER_SIZE} }
    \cup { h \o [i \in 1..extra |-> 0] : h \in Headers, extra \in 1..MaxExtra }
    \cup Datagrams

InitHeader ==
    /\ src \in Buffers
    /\ pos = 0
    /\ wire = <<>>
    /\ op = "init"
    /\ ret = Idle
    /\ pre = [src |-> <<>>, pos |-> 0, op |-> "init", ret |-> Idle]

\* a call of a decoder on the cursor: what it returns and where it leaves the
\* cursor (a panic unwinds, the cursor is not used again)
Call(name, r) ==
    /\ ret.tag # "Panic"
    /\ ret' = r
    /\ pos' = IF r.tag = "Panic" THEN pos ELSE r.pos
    /\ op' = name
    /\ pre' = Snapshot
    /\ UNCHANGED <<src, wire>>

\* cursor.get_u16_le() of F1Codec::decode, before it dispatches
Advance ==
    /\ pos = 0
    /\ remaining(src, pos) >= 2
    /\ Call("get_u16_le", Ok(get_u16_le(src, pos), pos + 2))

\* cursor.set_position(0)
Rewind ==
    /\ pos # 0
    /\ Call("set_position", Ok(0, 0))

PeekPacketId == pos <= 2 /\ Call("peek_packet_id", peek_packet_id(src, pos))

DecodeHeader == pos <= 2 /\ Call("decode_header", decode_header(src, pos))

PacketHeaderDecode ==
    pos <= 2 /\ Call("PacketHeader_decode", PacketHeader_decode(src, pos))

PacketDecode == pos <= 2 /\ Call("Packet_decode", Packet_decode(src, pos))

PeekEventCode == pos <= 2 /\ Call("peek_event_code", peek_event_code(src, pos))

NextHeader ==
    \/ Advance
    \/ Rewind
    \/ PeekPacketId
    \/ DecodeHeader
    \/ PacketHeaderDecode
    \/ PacketDecode
    \/ PeekEventCode

SpecHeader == InitHeader /\ [][NextHeader]_vars

-----------------------------------------------------------------------------
(* Direct calls of the per-packet-type decoders, as the tests make them: a  *)
(* buffer with one packet, and FromBytes::from_bytes or decode on a cursor  *)
(* at its start.                                                            *)

\* the packet kinds
Kinds ==
    {"Motion", "Session", "Lap", "Event", "Participants", "Setup", "Telemetry",
     "Status"}

\* the type byte the game gives a packet kind
TypeOf(kind) == CHOOSE type \in 0..7 : KindOf(type) = kind

\* where the records of a packet kind lie on the wire (the F1 2019 UDP
\* specification): offset of the first record, size of a record, number of
\* records, and offset in the record of an enumerated byte.  Motion and Setup
\* records have no enumerated byte.
RecordArea(kind) ==
    CASE kind = "Session"      -> [start |-> 42, size |-> 5,  n |-> 21, enum |-> 4]
      [] kind = "Lap"          -> [start |-> 23, size |-> 41, n |-> 20, enum |-> 34]
      [] kind = "Participants" -> [start |-> 24, size |-> 54, n |-> 20, enum |-> 0]
      [] kind = "Telemetry"    -> [start |-> 23, size |-> 66, n |-> 20, enum |-> 15]
      [] kind = "Status"       -> [start |-> 23, size |-> 56, n |-> 20, enum |-> 0]

RecordKinds == {"Session", "Lap", "Participants", "Telemetry", "Status"}

\* offset of the byte that counts the marshal zones of a session packet, or
\* the active participants of a participants packet
CountOffset(kind) == IF kind = "Session" THEN 41 ELSE HEADER_SIZE

\* offset in a participant's record of the name, and the width of the name
\* field on the wire
NameOffset == 5

NameWidth == RecordArea("Participants").size - NameOffset - 1

\* the byte after the name field of a participant on the wire: the UDP setting
TelemetryOffset == NameOffset + NameWidth

\* b with the byte at offset k replaced
poke(b, k, v) == [i \in 1..Len(b) |-> IF i = k + 1 THEN v ELSE b[i]]

\* b with the bytes of `bytes` written from offset k on
poke_all(b, k, bytes) ==
    [i \in 1..Len(b) |->
        IF i > k /\ i <= k + Len(bytes) THEN bytes[i - k] ELSE b[i]]

\* the whole of a packet of a kind with valid fields, with the type byte
\* `type` in its header
Wire(kind, type) ==
    poke(Datagram(2019, TypeOf(kind), FALSE, DeclaredSize(TypeOf(kind))), 5, type)

\* b with a code that no enumeration has in the enumerated byte of record k
BadRecord(b, kind, k) ==
    poke(b, RecordArea(kind).start + RecordArea(kind).size * k
                + RecordArea(kind).enum, 99)

\* names: the empty name, "Player", and 40 and 48 letters without a NUL
Names ==
    { <<>>, <<80, 108, 97, 121, 101, 114>>, [i \in 1..40 |-> 65],
      [i \in 1..NameWidth |-> 66] }

\* offset in a participant's record of the nationality
NationalityOffset == 4

\* a participants packet with `count` active participants, each with a
\* nationality (1), the first of them with the given name and a public UDP
\* setting (1); the entries of the other cars are zero-filled
Roster(type, count, name) ==
    LET area == RecordArea("Participants")
        wire_bytes == Wire("Participants", type)
        active(i) ==
            /\ i > area.start
            /\ (i - 1 - area.start) \div area.size < count
            /\ (i - 1 - area.start) % area.size = NationalityOffset
    IN  poke(poke_all(poke([i \in 1..Len(wire_bytes) |->
                               IF active(i) THEN 1 ELSE wire_bytes[i]],
                           CountOffset("Participants"), count),
                      area.start + NameOffset, name),
             area.start + TelemetryOffset, 1)

\* a session packet with `count` marshal zones: zone k starts at the fraction
\* whose bits are k and shows flag (k % 4) + 1; the slots of the other zones
\* are zero-filled, and the last two bytes of the packet are a virtual safety
\* car (2) and a network session (1)
Zones(type, count) ==
    LET area == RecordArea("Session")
        wire_bytes == Wire("Session", type)
        zone(i) == (i - 1 - area.start) \div area.size
        at(i) == (i - 1 - area.start) % area.size
    IN  poke([i \in 1..Len(wire_bytes) |->
                 IF i > area.start /\ zone(i) < count /\ zone(i) < area.n
                 THEN CASE at(i) = 0 -> zone(i)
                        [] at(i) = area.enum -> (zone(i) % 4) + 1
                        [] OTHER -> 0
                 ELSE IF i = 148 THEN 2
                 ELSE IF i = 149 THEN 1
                 ELSE wire_bytes[i]],
             CountOffset("Session"), count)

\* an event packet of len bytes: the header, the code, a vehicle index (1), a
\* lap time (2.0) and padding
EventWire(type, code, len) ==
    SubSeq(put_packet_header(2019, 1, 2, 3, type, U64_MAX_le, F32_ONE_le,
                             U32_MAX_le, 0)
               \o code \o <<1, 0, 0, 0, 64>> \o <<0, 0, 0, 0, 0, 0>>, 1, len)

\* the nine event codes, a code that is none of them ("XXXX"), and one that
\* differs from "SSTA" in its last byte
EventCodes ==
    { Event_table[i][1] : i \in 1..Len(Event_table) }
        \cup { <<88, 88, 88, 88>>, <<83, 83, 84, 66>> }

\* offset of the button bit field of a telemetry packet: after the records
ButtonOffset ==
    RecordArea("Telemetry").start
        + RecordArea("Telemetry").size * RecordArea("Telemetry").n

\* button bit fields, little-endian: one button (0x0001), every button
\* (0x7FFF), one button and the bit above the buttons (0x8001), one button and
\* a bit of the upper half (0x00010001), and the top bit alone (0x80000000)
ButtonMasks ==
    { <<1, 0, 0, 0>>, <<255, 127, 0, 0>>, <<1, 128, 0, 0>>, <<1, 0, 1, 0>>,
      <<0, 0, 0, 128>> }

\* offset in a lap record of the byte the validity of the lap is read from:
\* two bytes after the pit status
ValidOffset == RecordArea("Lap").enum + 2

\* validity bytes of the cars of a lap packet, given to the cars in turn
ValidityPatterns == { <<0, 1, 2, 255>>, <<2, 128, 0, 3, 1>> }

\* a lap packet whose car k has the validity byte pattern[(k % Len) + 1]
Laps(type, pattern) ==
    LET area == RecordArea("Lap")
        wire_bytes == Wire("Lap", type)
    IN  [i \in 1..Len(wire_bytes) |->
            IF i > area.start /\ (i - 1 - area.start) % area.size = ValidOffset
            THEN pattern[(((i - 1 - area.start) \div area.size) % Len(pattern)) + 1]
            ELSE wire_bytes[i]]

\* the shortest record ParticipantsPacket::decode accepts: a human, driver 0,
\* team 0, race number 0, nationality 1, an empty name (its NUL) and a
\* restricted UDP setting
ShortRecord == <<0, 0, 0, 0, 1, 0, 0>>

\* how many such records a participants packet has room for
ShortRecordsFit ==
    (DeclaredSize(TypeOf("Participants")) - RecordArea("Participants").start)
        \div Len(ShortRecord)

\* a participants packet that says it has `count` participants and is filled
\* with shortest records from the count byte on
Crowd(type, count) ==
    LET area == RecordArea("Participants")
        wire_bytes == Wire("Participants", type)
    IN  poke([i \in 1..Len(wire_bytes) |->
                 IF i > area.start
                 THEN ShortRecord[((i - 1 - area.start) % Len(ShortRecord)) + 1]
                 ELSE wire_bytes[i]],
             CountOffset("Participants"), count)

\* the type bytes given to the header of a packet: the one of its kind, and
\* one that PacketType has a variant for (an event packet also has the 0 of
\* put_packet_header in the tests)
HeaderTypes(kind) == {TypeOf(kind), 6}

MaxActive == 2

MaxBadRecord == 1

\* the record counts of a packet: few, all, and one more than the wire holds
Counts(kind) == (0..MaxActive) \cup {RecordArea(kind).n, RecordArea(kind).n + 1}

\* the records given an invalid enumerated byte: the first ones and the last
BadRecords(kind) == (0..MaxBadRecord) \cup {RecordArea(kind).n - 1}

Packets ==
    {<<>>}
    \cup UNION { { SubSeq(Wire(kind, type) \o [i \in 1..MaxExtra |-> 0], 1,
                          DeclaredSize(TypeOf(kind)) + extra) :
                     type \in HeaderTypes(kind), extra \in (0 - 1)..MaxExtra } :
                   kind \in Kinds \ {"Event"} }
    \cup UNION { { BadRecord(Wire(kind, type), kind, k) :
                     type \in HeaderTypes(kind), k \in BadRecords(kind) } :
                   kind \in {"Lap", "Telemetry", "Status"} }
    \cup { Roster(type, count, name) :
             type \in HeaderTypes("Participants"),
             count \in Counts("Participants"), name \in Names }
    \cup { BadRecord(Roster(type, count, <<>>), "Participants", k) :
             type \in HeaderTypes("Participants"),
             count \in Counts("Participants"), k \in BadRecords("Participants") }
    \cup { Zones(type, count) :
             type \in HeaderTypes("Session"), count \in Counts("Session") }
    \cup { BadRecord(Zones(type, count), "Session", k) :
             type \in HeaderTypes("Session"), count \in Counts("Session"),
             k \in BadRecords("Session") }
    \cup { EventWire(type, code, len) :
             type \in HeaderTypes("Event") \cup {0}, code \in EventCodes,
             len \in 26..(32 + MaxExtra) }
    \cup { Crowd(type, count) :
             type \in HeaderTypes("Participants"),
             count \in {ShortRecordsFit, ShortRecordsFit + 1, 255} }
    \cup { Laps(type, pattern) :
             type \in HeaderTypes("Lap"), pattern \in ValidityPatterns }
    \cup { poke_all(Wire("Telemetry", TypeOf("Telemetry")), ButtonOffset, mask) :
             mask \in ButtonMasks }
    \cup { poke_all([i \in 1..(NameWidth + 1) |-> IF i > NameWidth THEN 1 ELSE 0],
                    0, name) : name \in Names }

InitPacket ==
    /\ src \in Packets
    /\ pos = 0
    /\ wire = <<>>
    /\ op = [fn |-> "init", T |-> "none"]
    /\ ret = Idle
    /\ pre = [src |-> <<>>, pos |-> 0, op |-> [fn |-> "init", T |-> "none"],
              ret |-> Idle]

\* T::from_bytes(&mut cursor) on a cursor at the start of the buffer
FromBytes ==
    \E T \in Kinds :
        /\ op.fn = "init"
        /\ Call([fn |-> "from_bytes", T |-> T], from_bytes(T, src, pos))

\* T::decode(&mut cursor), or decode_motion, decode_setups, decode_statuses,
\* decode_telemetry, on a cursor at the start of the buffer
DecodePacket ==
    \E T \in Kinds :
        /\ op.fn = "init"
        /\ Call([fn |-> "decode", T |-> T], decode(T, src, pos))

\* ParticipantsPacket::decode_name on a cursor at the start of the buffer
DecodeName ==
    /\ op.fn = "init"
    /\ Call([fn |-> "decode_name", T |-> "Participants"], decode_name(src, pos, 0, <<>>))

NextPacket == FromBytes \/ DecodePacket \/ DecodeName

SpecPacket == InitPacket /\ [][NextPacket]_vars

-----------------------------------------------------------------------------
(* Direct calls of the conversions of a participant's enumerated bytes, as  *)
(* ParticipantsPacket::decode makes them on the byte it has read            *)

InitEnum ==
    /\ src \in { <<value>> : value \in Byte }
    /\ pos = 0
    /\ wire = <<>>
    /\ op = "init"
    /\ ret = Idle
    /\ pre = [src |-> <<>>, pos |-> 0, op |-> "init", ret |-> Idle]

\* Driver::try_from(cursor.get_u8())
DriverTryFrom ==
    /\ remaining(src, 0) >= 1
    /\ Call("Driver_try_from",
         enum_match(Driver_table, get_u8(src, 0), "Failed to decode driver."))

\* Team::try_from(cursor.get_u8())
TeamTryFrom ==
    /\ remaining(src, 0) >= 1
    /\ Call("Team_try_from",
         enum_match(Team_table, get_u8(src, 0), "Failed to decode team."))

\* Nationality::try_from(cursor.get_u8())
NationalityTryFrom ==
    /\ remaining(src, 0) >= 1
    /\ Call("Nationality_try_from",
         enum_match(Nationality_table, get_u8(src, 0),
                    "Failed to decode nationality."))

NextEnum == DriverTryFrom \/ TeamTryFrom \/ NationalityTryFrom

SpecEnum == InitEnum /\ [][NextEnum]_vars

-----------------------------------------------------------------------------
(* Direct calls of the decoders of the enumerated fields, as the packet     *)
(* decoders make them on a cursor at the byte of the field                  *)

\* the layouts of the records that have enumerated fields
EnumLayouts ==
    { CarStatus_layout, Telemetry_layout, Lap_layout, SessionHead_layout,
      MarshalZone_layout, SessionTail_layout, ParticipantHead_layout,
      ParticipantTail_layout }

\* the enumerated fields: decode_*(cursor)? or X::try_from(cursor.get_*())?
EnumFields ==
    UNION { { layout[i] : i \in { j \in 1..Len(layout) :
                                    layout[j].t \in {"enum_u8", "enum_i8"} } } :
            layout \in EnumLayouts }

\* the read of one enumerated field, on a cursor over the one byte of it
DecodeField ==
    \E f \in EnumFields :
        /\ op = "init"
        /\ remaining(src, pos) >= width(f.t)
        /\ Call(f.n, read_field(f, src, pos))

NextField == DecodeField

SpecField == InitEnum /\ [][NextField]_vars

-----------------------------------------------------------------------------
(* Several transports, each with its own buffer and its own F1Codec, that   *)
(* run interleaved: src, wire, op, ret and pre hold one value per thread.   *)

Threads == {1, 2}

\* the datagrams the threads receive: an event and a telemetry packet, of the
\* supported format and of another year
ThreadTypes == {3, 6}

ThreadDatagrams ==
    { Datagram(format, type, FALSE, DeclaredSize(type)) :
        format \in {2019, 2018}, type \in ThreadTypes }

InitThreads ==
    /\ src = [t \in Threads |-> <<>>]
    /\ pos = 0
    /\ wire \in [Threads -> ThreadDatagrams]
    /\ op = [t \in Threads |-> "init"]
    /\ ret = [t \in Threads |-> Idle]
    /\ pre = [t \in Threads |-> [src |-> <<>>, op |-> "init", ret |-> Idle]]

\* what thread t sees of the state
SnapshotOf(t) == [src |-> src[t], op |-> op[t], ret |-> ret[t]]

\* the transport of thread t appends the next bytes of its datagram to its
\* buffer: one byte at the start of the datagram, or all that is left
ReceiveOn(t) ==
    \E n \in {1, Len(wire[t])} :
        /\ n >= 1
        /\ n <= Len(wire[t])
        /\ n = 1 => (Len(wire[t]) = 1 \/ Len(src[t]) < MaxPiecewise)
        /\ src' = [src EXCEPT ![t] = src[t] \o SubSeq(wire[t], 1, n)]
        /\ wire' = [wire EXCEPT ![t] = SubSeq(wire[t], n + 1, Len(wire[t]))]
        /\ op' = [op EXCEPT ![t] = "receive"]
        /\ pre' = [pre EXCEPT ![t] = SnapshotOf(t)]
        /\ UNCHANGED <<pos, ret>>

\* F1Codec::decode as it would be if the codec kept the error it returned and
\* returned it again without looking at the buffer
DecodeOnKeepingError(t) ==
    /\ ret[t].tag # "Panic"
    /\ LET r == IF ret[t].tag = "Err" THEN [ret |-> ret[t], src |-> src[t]]
                ELSE F1Codec_decode(src[t])
       IN  /\ src' = [src EXCEPT ![t] = r.src]
           /\ ret' = [ret EXCEPT ![t] = r.ret]
    /\ op' = [op EXCEPT ![t] = "decode"]
    /\ pre' = [pre EXCEPT ![t] = SnapshotOf(t)]
    /\ UNCHANGED <<pos, wire>>

\* F1Codec::decode as it would be if the threads shared the cursor's buffer:
\* a thread decodes what the thread before it was given
DecodeOnSharedBuffer(t) ==
    /\ ret[t].tag # "Panic"
    /\ LET last == IF \E u \in Threads : op[u] = "decode"
                   THEN pre[CHOOSE u \in Threads : op[u] = "decode"].src
                   ELSE src[t]
           r == F1Codec_decode(last)
       IN  /\ src' = [src EXCEPT ![t] = IF r.src = <<>> THEN <<>> ELSE src[t]]
           /\ ret' = [ret EXCEPT ![t] = r.ret]
    /\ op' = [op EXCEPT ![t] = "decode"]
    /\ pre' = [pre EXCEPT ![t] = SnapshotOf(t)]
    /\ UNCHANGED <<pos, wire>>

\* the transport of thread t offers its buffer to its codec
DecodeOn(t) ==
    /\ ret[t].tag # "Panic"
    /\ LET r == F1Codec_decode(src[t])
       IN  /\ src' = [src EXCEPT ![t] = r.src]
           /\ ret' = [ret EXCEPT ![t] = r.ret]
    /\ op' = [op EXCEPT ![t] = "decode"]
    /\ pre' = [pre EXCEPT ![t] = SnapshotOf(t)]
    /\ UNCHANGED <<pos, wire>>

ThreadReceive == \E t \in Threads : ReceiveOn(t)

ThreadDecode == \E t \in Threads : DecodeOn(t)

NextThreads == ThreadReceive \/ ThreadDecode

SpecThreads == InitThreads /\ [][NextThreads]_vars

-----------------------------------------------------------------------------
(* Properties.  A buffer is read here byte by byte, as the wire format      *)
(* lays it out, and not through the decoders.                               *)

\* the little-endian u16 that starts at byte i (1-indexed) of b
u16_at(b, i) == b[i] + 256 * b[i + 1]

version_tag(b) == u16_at(b, 1)

\* b is the whole of a packet of a kind the game sends, all of whose fields
\* are valid
WholePacket(b) ==
    /\ Len(b) >= 6
    /\ b[6] \in 0..7
    /\ b = Datagram(2019, b[6], FALSE, DeclaredSize(b[6]))

\* b is the whole of a packet one of whose enumerated bytes has no variant
BrokenPacket(b) ==
    /\ Len(b) >= 6
    /\ b[6] \in EnumTypes
    /\ b = Datagram(2019, b[6], TRUE, DeclaredSize(b[6]))

\* b with its version tag replaced by 2019
retag(b) == [i \in 1..Len(b) |-> IF i = 1 THEN 227 ELSE IF i = 2 THEN 7 ELSE b[i]]

\* C1: on a buffer that starts with version tag 2019 and a type byte in 0..7
\* and is shorter than the declared size of that packet type, F1Codec::decode
\* returns Ok(None) and leaves the buffer as it was.
C1_ShortBufferNeedsMoreData ==
    (/\ op = "decode"
     /\ Len(pre.src) >= 6
     /\ version_tag(pre.src) = 2019
     /\ pre.src[6] \in 0..7
     /\ Len(pre.src) < DeclaredSize(pre.src[6]))
    => (ret = None /\ src = pre.src)

\* C2: the call of decode that follows the append which completes a
\* well-formed packet returns Ok(Some(packet)) and leaves the buffer empty.
C2_CompletePacketIsDecoded ==
    (op = "decode" /\ pre.op = "receive" /\ WholePacket(pre.src))
    => (ret.tag = "Some" /\ src = <<>>)

\* C3: on a complete packet whose body has an invalid enumerated byte (or an
\* unknown event code) F1Codec::decode returns Err, not Ok(None) and not
\* Ok(Some(_)).
C3_BodyFailureIsErr ==
    (op = "decode" /\ BrokenPacket(pre.src)) => ret.tag = "Err"

\* C4: on a buffer of fewer than 2 bytes F1Codec::decode returns Ok(None) and
\* leaves the buffer as it was.
C4_FewerThanTwoBytes ==
    (op = "decode" /\ Len(pre.src) < 2) => (ret = None /\ src = pre.src)

C4_OneByteBufferDecoded ==
    op = "decode" /\ Len(pre.src) = 1 /\ ret = None /\ src = pre.src

\* C5: on a buffer of at least 2 bytes whose leading little-endian u16 is not
\* 2019 F1Codec::decode returns the unknown-format Err, whatever follows the
\* two bytes; it returns neither Ok(None) nor Ok(Some(_)).
C5_OtherVersionIsErr ==
    (op = "decode" /\ Len(pre.src) >= 2 /\ version_tag(pre.src) # 2019)
    => (/\ ret.tag = "Err"
        /\ ret.kind = "InvalidData"
        /\ ret.msg = "Unknown packet format.")

C5_SwappedVersionRejected ==
    /\ op = "decode"
    /\ Len(pre.src) >= HEADER_SIZE
    /\ version_tag(pre.src) = 58119
    /\ ret.tag = "Err"

\* C6: each type byte 0..7 is accepted and selects the decoder of Motion,
\* Session, Lap, Event, Participants, Setup, Telemetry, Status respectively:
\* the peek returns that packet type, and Packet::decode of a whole packet
\* returns a packet of that kind.
C6_TypeByteSelectsDecoder ==
    /\ (/\ op = "peek_packet_id"
        /\ Len(pre.src) >= 6
        /\ version_tag(pre.src) = 2019
        /\ pre.src[6] \in 0..7)
       => (ret.tag = "Ok" /\ ret.val = KindOf(pre.src[6]))
    /\ (op = "Packet_decode" /\ pre.pos = 0 /\ WholePacket(pre.src))
       => (ret.tag = "Ok" /\ ret.val.kind = KindOf(pre.src[6]))

\* C7: a peek of a 2019 packet that returns a packet type leaves the buffer as it was and the
\* cursor at the position it had when the peek was called, and a second peek
\* of the same buffer returns the same packet type.
C7_PeekLeavesCursor ==
    (op = "peek_packet_id" /\ ret.tag = "Ok" /\ version_tag(pre.src) = 2019)
    => (/\ src = pre.src
        /\ pos = pre.pos
        /\ (pre.op = "peek_packet_id" /\ pre.ret.tag = "Ok")
           => ret.val = pre.ret.val)

\* C8: on a cursor at the start of a 2019 datagram of at least 23 bytes
\* decode_header returns a Header, advances the cursor by exactly 23 bytes,
\* and the Header has the game version, session uid, frame identifier and
\* player car index of the wire (and 1 s for a session time of 1.0).
C8_HeaderFromLayout ==
    (/\ op = "decode_header"
     /\ pre.pos = 0
     /\ Len(pre.src) >= HEADER_SIZE
     /\ version_tag(pre.src) = 2019)
    => (/\ ret.tag = "Ok"
        /\ pos = HEADER_SIZE
        /\ ret.val.game_version = [major |-> pre.src[3], minor |-> pre.src[4]]
        /\ ret.val.session_uid =
               << u16_at(pre.src, 13), u16_at(pre.src, 11),
                  u16_at(pre.src, 9), u16_at(pre.src, 7) >>
        /\ SubSeq(pre.src, 15, 18) = F32_ONE_le
               => ret.val.session_time = [secs |-> 1]
        /\ ret.val.frame_identifier =
               [hi |-> u16_at(pre.src, 21), lo |-> u16_at(pre.src, 19)]
        /\ ret.val.player_car_index = pre.src[23])

\* C9: on 23 header bytes whose version tag is not 2019 the header decoders
\* fail; they produce no header.
C9_HeaderRejectsOtherVersion ==
    (/\ op \in {"decode_header", "PacketHeader_decode"}
     /\ pre.pos = 0
     /\ Len(pre.src) >= HEADER_SIZE
     /\ version_tag(pre.src) # 2019)
    => ret.tag = "Err"

\* C9, amended: the header decoders do not examine the version tag.  On a
\* cursor at the start of a buffer they return what they return on the same
\* bytes with the tag 2019, and leave the cursor where they leave it then;
\* the header of PacketHeader::decode carries the tag as it was received.
C9_HeaderIgnoresVersionTag ==
    /\ (op = "decode_header" /\ pre.pos = 0 /\ Len(pre.src) >= 2)
       => ret = decode_header(retag(pre.src), 0)
    /\ (op = "PacketHeader_decode" /\ pre.pos = 0 /\ Len(pre.src) >= 2)
       => IF ret.tag = "Ok"
          THEN /\ ret.val.packet_format = version_tag(pre.src)
               /\ [ret EXCEPT !.val.packet_format = 2019]
                      = PacketHeader_decode(retag(pre.src), 0)
          ELSE ret = PacketHeader_decode(retag(pre.src), 0)

C9_HeaderOfOtherVersionDecoded ==
    /\ op = "decode_header"
    /\ pre.pos = 0
    /\ Len(pre.src) >= HEADER_SIZE
    /\ version_tag(pre.src) = 2018
    /\ ret.tag = "Ok"
    /\ pos = HEADER_SIZE

\* C10: on the 23 header bytes of a 2019 packet PacketHeader::decode fails with the invalid-data
\* error of the packet type exactly when the type byte is outside 0..7.
C10_TypeByteRange ==
    (/\ op = "PacketHeader_decode"
     /\ pre.pos = 0
     /\ Len(pre.src) >= HEADER_SIZE
     /\ version_tag(pre.src) = 2019)
    => ((ret.tag = "Err" /\ ret.kind = "InvalidData") <=> pre.src[6] \notin 0..7)

-----------------------------------------------------------------------------
(* Properties of the per-packet-type decoders *)

\* a call of the checked or of the unchecked decoder of kind T on a cursor at
\* the start of the buffer
Decoded(T) == op.fn \in {"from_bytes", "decode"} /\ op.T = T /\ pre.pos = 0

\* b has the declared size of a packet of the kind
Sized(b, kind) == Len(b) = DeclaredSize(TypeOf(kind))

\* the records a packet of the kind holds on the wire: as many marshal zones
\* as the count byte says, and 20 cars
RecordsOnWire(b, kind) ==
    IF kind = "Session" THEN b[CountOffset(kind) + 1] ELSE RecordArea(kind).n

\* the enumerated byte of record k of a packet of the kind
EnumByte(b, kind, k) ==
    b[RecordArea(kind).start + RecordArea(kind).size * k + RecordArea(kind).enum + 1]

\* C11: when record k of a whole packet has an enumerated byte outside its
\* code set, the decoder of that packet kind returns Err: it returns no
\* packet, whatever k is.
C11_NoPartialPackets ==
    \A T \in RecordKinds :
        (/\ Decoded(T)
         /\ Sized(pre.src, T)
         /\ \E k \in 0..(RecordArea(T).n - 1) :
                k < RecordsOnWire(pre.src, T) /\ EnumByte(pre.src, T, k) = 99)
        => ret.tag = "Err"

\* the per-car records of a decoded packet
CarRecords(packet) ==
    CASE packet.kind = "Motion"       -> packet.cars
      [] packet.kind = "Lap"          -> packet.laps
      [] packet.kind = "Participants" -> packet.participants
      [] packet.kind = "Setup"        -> packet.setups
      [] packet.kind = "Status"       -> packet.statuses
      [] packet.kind = "Telemetry"    -> packet.telemetry

\* b is a whole participants packet with valid fields whose active-count byte
\* is at most 20
ValidRoster(b) ==
    /\ Sized(b, "Participants")
    /\ b[CountOffset("Participants") + 1] <= CARS
    /\ \A k \in 0..(CARS - 1) : EnumByte(b, "Participants", k) # 99

\* C12: a decoded Motion, Lap, Participants, Setup, Status or Telemetry packet
\* has exactly 20 per-car records; a whole participants packet with n <= 20
\* active participants is decoded, to 20 participants and the active count n.
C12_TwentyCarRecords ==
    /\ \A T \in Kinds \ {"Event", "Session"} :
           (Decoded(T) /\ Sized(pre.src, T) /\ ret.tag = "Ok")
           => Len(CarRecords(ret.val)) = CARS
    /\ (/\ op = [fn |-> "from_bytes", T |-> "Participants"]
        /\ ValidRoster(pre.src))
       => (/\ ret.tag = "Ok"
           /\ Len(ret.val.participants) = CARS
           /\ "active_participants_count" \in DOMAIN ret.val
           /\ ret.val.active_participants_count
                  = pre.src[CountOffset("Participants") + 1])

\* the variant of the flag of a marshal zone with code 0..4
ZoneFlag(code) == <<"None", "Green", "Blue", "Yellow", "Red">>[code + 1]

\* C13: a decoded Session packet has as many marshal zones as its count byte
\* says, in the order of the wire; a packet decoded by from_bytes has at most
\* 21; the safety car and the network-session flag are read from the two
\* bytes that follow the last of those zones.
C13_MarshalZonesAsCounted ==
    (Decoded("Session") /\ ret.tag = "Ok")
    => LET count == pre.src[CountOffset("Session") + 1]
           area == RecordArea("Session")
           after == area.start + area.size * count
       IN  /\ Len(ret.val.marshal_zones) = count
           /\ op.fn = "from_bytes" => count \in 0..21
           /\ \A k \in 0..(count - 1) :
                  /\ ret.val.marshal_zones[k + 1].start.mant
                         = u16_at(pre.src, area.start + area.size * k + 1)
                  /\ EnumByte(pre.src, "Session", k) \in 0..4
                  /\ ret.val.marshal_zones[k + 1].flag
                         = ZoneFlag(EnumByte(pre.src, "Session", k))
           /\ pre.src[after + 1] \in 0..2
           /\ ret.val.safety_car = <<"None", "Full", "Virtual">>[pre.src[after + 1] + 1]
           /\ ret.val.network_session = (pre.src[after + 2] > 0)
           /\ ret.pos = after + 2

C13_TwoZonesDecoded ==
    /\ op = [fn |-> "from_bytes", T |-> "Session"]
    /\ ret.tag = "Ok"
    /\ pre.src[CountOffset("Session") + 1] = 2
    /\ Len(ret.val.marshal_zones) = 2
    /\ ret.val.marshal_zones[2].flag = "Blue"

\* the bytes of the name field at offset p of b before its first NUL
RECURSIVE BeforeNul(_, _, _)
BeforeNul(b, p, k) ==
    IF k = NAME_SIZE \/ b[p + k + 1] = 0 THEN <<>>
    ELSE <<b[p + k + 1]>> \o BeforeNul(b, p, k + 1)

\* C14: on a cursor with a whole name field ahead decode_name returns the
\* bytes before the first NUL and advances the cursor by the width of the
\* field, wherever the NUL is; the UDP setting of a decoded participant is the
\* byte that follows the name field on the wire.
C14_NameAdvancesFieldWidth ==
    /\ (op.fn = "decode_name" /\ remaining(pre.src, pre.pos) >= NAME_SIZE)
       => (/\ ret.tag = "Ok"
           /\ ret.val = BeforeNul(pre.src, pre.pos, 0)
           /\ pos = pre.pos + NAME_SIZE)
    /\ (/\ op = [fn |-> "from_bytes", T |-> "Participants"]
        /\ ret.tag = "Ok"
        /\ Len(ret.val.participants) >= 1)
       => ret.val.participants[1].telemetry
              = <<"Restricted", "Public">>[
                    pre.src[RecordArea("Participants").start + TelemetryOffset + 1] + 1]

\* the event of each code (the F1 2019 UDP specification): SSTA, SEND, FTLP,
\* RTMT, DRSE, DRSD, TMPT, CHQF, RCWN
EventOf(code) ==
    CASE code = <<83, 83, 84, 65>> -> "SessionStarted"
      [] code = <<83, 69, 78, 68>> -> "SessionEnded"
      [] code = <<70, 84, 76, 80>> -> "FastestLap"
      [] code = <<82, 84, 77, 84>> -> "Retirement"
      [] code = <<68, 82, 83, 69>> -> "DrsEnabled"
      [] code = <<68, 82, 83, 68>> -> "DrsDisabled"
      [] code = <<84, 77, 80, 84>> -> "TeammatesInPits"
      [] code = <<67, 72, 81, 70>> -> "ChequeredFlag"
      [] code = <<82, 67, 87, 78>> -> "RaceWinner"
      [] OTHER -> "none"

NoPayload == {"SessionStarted", "SessionEnded", "DrsEnabled", "DrsDisabled",
              "ChequeredFlag"}

\* the four bytes after the header of b
CodeOf(b) == SubSeq(b, HEADER_SIZE + 1, HEADER_SIZE + 4)

\* a call of EventPacket::from_bytes or EventPacket::decode on a whole event
\* packet (the 23 bytes of a 2019 header, the code, and 32 bytes in all)
EventDecoded ==
    /\ Decoded("Event")
    /\ Sized(pre.src, "Event")
    /\ version_tag(pre.src) = 2019

\* C15: an event packet with the code of an event without payload (SSTA,
\* SEND, DRSE, DRSD, CHQF) decodes to that event, and the decoder consumes the
\* header and the four bytes of the code and nothing more.
C15_EventWithoutPayload ==
    (EventDecoded /\ EventOf(CodeOf(pre.src)) \in NoPayload)
    => (/\ ret.tag = "Ok"
        /\ ret.val.event = [variant |-> EventOf(CodeOf(pre.src))]
        /\ pos = HEADER_SIZE + 4)

\* C16: an event packet with the code FTLP decodes to a FastestLap with the
\* vehicle index of offset 27 and the lap time of the little-endian f32 at
\* offset 28; one with RTMT, TMPT or RCWN to its event with the vehicle index
\* of offset 27.
C16_EventPayloadFollowsCode ==
    /\ (EventDecoded /\ EventOf(CodeOf(pre.src)) = "FastestLap")
       => (/\ ret.tag = "Ok"
           /\ ret.val.event.variant = "FastestLap"
           /\ ret.val.event.vehicle_index = pre.src[28]
           /\ ret.val.event.lap_time.mant
                  = (pre.src[31] % 128) * 65536 + u16_at(pre.src, 29)
           /\ ret.val.event.lap_time.exp
                  = (pre.src[32] % 128) * 2 + pre.src[31] \div 128)
    /\ (EventDecoded
        /\ EventOf(CodeOf(pre.src)) \in {"Retirement", "TeammatesInPits", "RaceWinner"})
       => (/\ ret.tag = "Ok"
           /\ ret.val.event.variant = EventOf(CodeOf(pre.src))
           /\ ret.val.event.vehicle_index = pre.src[28])

\* C17: the event decoder returns the event of the code for each of the nine
\* codes, no two of which have the same event, and an InvalidData error for
\* every other code.
C17_NineEventCodes ==
    EventDecoded
    => IF EventOf(CodeOf(pre.src)) # "none"
       THEN /\ ret.tag = "Ok"
            /\ ret.val.event.variant = EventOf(CodeOf(pre.src))
            /\ \A i \in 1..Len(Event_table) :
                   Event_table[i][2] = ret.val.event.variant
                   => Event_table[i][1] = CodeOf(pre.src)
       ELSE ret.tag = "Err" /\ ret.kind = "InvalidData"

\* C18: a buffer of 27 to 32 bytes that holds the header and the code of an
\* event without payload is decoded to that event by EventPacket::from_bytes
\* (the header being one that PacketHeader::decode accepts).
C18_ShortEventIsDecoded ==
    (/\ op = [fn |-> "from_bytes", T |-> "Event"]
     /\ Len(pre.src) \in (HEADER_SIZE + 4)..32
     /\ version_tag(pre.src) = 2019
     /\ pre.src[6] \in {6, 7}
     /\ EventOf(CodeOf(pre.src)) \in NoPayload)
    => (ret.tag = "Ok" /\ ret.val.event.variant = EventOf(CodeOf(pre.src)))

\* C18, amended: EventPacket::from_bytes decodes nothing unless exactly 32
\* bytes remain, also for an event without payload: on any other length it
\* returns the UnexpectedEof error and leaves the cursor where it was.
C18_EventNeedsDeclaredSize ==
    (op = [fn |-> "from_bytes", T |-> "Event"] /\ remaining(pre.src, pre.pos) # 32)
    => (/\ ret.tag = "Err"
        /\ ret.kind = "UnexpectedEof"
        /\ pos = pre.pos)

C18_HeaderAndCodeRefused ==
    /\ op = [fn |-> "from_bytes", T |-> "Event"]
    /\ Len(pre.src) = HEADER_SIZE + 4
    /\ pre.src[6] = 6
    /\ EventOf(CodeOf(pre.src)) = "SessionStarted"
    /\ ret.tag = "Err"
    /\ ret.kind = "UnexpectedEof"

\* the entry points that check the size of the packet themselves
\* (decode_motion, decode_setups, decode_statuses, decode_telemetry), and the
\* packets that have an unchecked decode
EntryPoints == {"Motion", "Setup", "Status", "Telemetry"}

-----------------------------------------------------------------------------
(* Properties of the enumerated fields of a participant *)

\* the declaration of the enumeration a conversion returns variants of
EnumOf(name) ==
    CASE name = "Driver_try_from"      -> Driver_enum
      [] name = "Team_try_from"        -> Team_enum
      [] name = "Nationality_try_from" -> Nationality_enum

\* the discriminants an enumeration declares
Codes(enum) == { enum[i][2] : i \in 1..Len(enum) }

\* C20: a byte that is the code of a variant of Driver, Team or Nationality
\* is converted to that variant, and to no variant that another code has; any
\* other byte is an InvalidData error; the Driver codes 3, 4, 5 and 8 are
\* among the rejected ones.
C20_ParticipantEnumsAreExact ==
    (op \in {"Driver_try_from", "Team_try_from", "Nationality_try_from"})
    => LET value == pre.src[1]
           enum == EnumOf(op)
       IN  /\ value \in Codes(enum)
               => (/\ ret.tag = "Ok"
                   /\ \E i \in 1..Len(enum) : enum[i] = <<ret.val, value>>
                   /\ \A i \in 1..Len(enum) : enum[i][1] = ret.val => enum[i][2] = value)
           /\ value \notin Codes(enum)
               => (ret.tag = "Err" /\ ret.kind = "InvalidData")
           /\ (op = "Driver_try_from" /\ value \in {3, 4, 5, 8}) => ret.tag = "Err"

C20_ReservedDriverRejected ==
    /\ op = "Driver_try_from"
    /\ pre.src = <<8>>
    /\ ret.tag = "Err"
    /\ ret.msg = "Failed to decode driver."

\* the names of the enumerated fields
FieldNames == { f.n : f \in EnumFields }

\* the fields the specification lists as signed: the track, the DRS setting,
\* and the flags of a marshal zone and of a car
SentinelFields == {"track", "drs", "flag", "vehicle_flags"}

\* C21: exactly the Track, DRS-setting and Flag decoders accept the wire byte
\* 0xFF (-1 as a signed byte); every other enumerated field decoder, the gear
\* among them, rejects it.
C21_OnlySentinelsAreSigned ==
    (op \in FieldNames /\ pre.src = <<255>>)
    => (ret.tag = "Ok" <=> op \in SentinelFields)

\* C21 (amended): the Gear, Track, DRS-setting and Flag decoders read their byte
\* as a signed 8-bit value and accept 0xFF as -1, the reverse gear or the
\* unknown/invalid sentinel; every other enumerated field decoder rejects 0xFF;
\* and no decoder accepts a byte in 0x80..0xFE.
C21_GearAndSentinelsAreSigned ==
    (op \in FieldNames)
    => LET value == pre.src[1]
       IN  /\ value = 255 =>
                 /\ ret.tag = "Ok" <=> op \in SentinelFields \cup {"gear"}
                 /\ ret.tag = "Ok" =>
                        ret.val = CASE op = "gear" -> "Reverse"
                                    [] op \in {"track", "drs"} -> "Unknown"
                                    [] OTHER -> "Invalid"
                 /\ ret.tag # "Ok" => (ret.tag = "Err" /\ ret.kind = "InvalidData")
           /\ value \in 128..254 => (ret.tag = "Err" /\ ret.kind = "InvalidData")

C21_ReverseGearDecoded ==
    /\ op = "gear"
    /\ pre.src = <<255>>
    /\ ret = Ok("Reverse", 1)

\* the bits of the named buttons (0x0001..0x4000) in the button bit field of
\* the telemetry packet b
NamedButtons(b) == u16_at(b, ButtonOffset + 1) % 32768

\* C22: the button state of a decoded telemetry packet holds exactly the
\* named button bits that are set in the trailing u32 of the packet, also when
\* bits outside the 15 named buttons are set.
C22_UnknownButtonBitsIgnored ==
    (Decoded("Telemetry") /\ Sized(pre.src, "Telemetry"))
    => ret.val.button_status = NamedButtons(pre.src)

\* what the decode call that thread t made last returned, and the buffer it
\* left
OutcomeOf(t) == [ret |-> ret[t], src |-> src[t]]

ValidByte(b, k) ==
    b[RecordArea("Lap").start + RecordArea("Lap").size * k + ValidOffset + 1]

\* C25: in a decoded lap packet the lap of a car is valid exactly when its
\* validity byte is greater than 1: valid for 2..255, not valid for 0 and 1.
C25_LapValidAboveOne ==
    (Decoded("Lap") /\ Sized(pre.src, "Lap") /\ ret.tag = "Ok")
    => /\ Len(ret.val.laps) = CARS
       /\ \A k \in 0..(CARS - 1) :
              /\ ValidByte(pre.src, k) \in 2..255
                     => ret.val.laps[k + 1].is_lap_valid = TRUE
              /\ ValidByte(pre.src, k) \in {0, 1}
                     => ret.val.laps[k + 1].is_lap_valid = FALSE

\* a decoded lap packet with the validity bytes 0, 1, 2 and 255
C25_ValidityBytesDecoded ==
    /\ Decoded("Lap")
    /\ ret.tag = "Ok"
    /\ \A v \in {0, 1, 2, 255} :
           \E k \in 0..(CARS - 1) :
               /\ ValidByte(pre.src, k) = v
               /\ ret.val.laps[k + 1].is_lap_valid = (v > 1)

\* C26: a decoder of a motion, session, lap, participants, setup, status or
\* telemetry packet that succeeds on a buffer of exactly the declared size of
\* the packet leaves the cursor at that size, whatever the count bytes are.
C26_DecoderConsumesDeclaredSize ==
    \A T \in Kinds \ {"Event"} :
        (Decoded(T) /\ Sized(pre.src, T) /\ ret.tag = "Ok")
        => ret.pos = buffer_size(T)

\* C27: SessionPacket::from_bytes on a buffer of 149 bytes never reads past
\* the end of the buffer, whatever the marshal-zone count byte is: it returns
\* a packet or an error.
C27_SessionStaysInBuffer ==
    (op.fn = "from_bytes" /\ op.T = "Session" /\ Sized(pre.src, "Session"))
    => ret.tag \in {"Ok", "Err"}

\* C28: ParticipantsPacket::from_bytes on a buffer of 1104 bytes never reads
\* past the end of the buffer, whatever the participant count byte is: it
\* returns a packet or an error.
C28_ParticipantsStayInBuffer ==
    (op.fn = "from_bytes" /\ op.T = "Participants" /\ Sized(pre.src, "Participants"))
    => ret.tag \in {"Ok", "Err"}

\* C29: a decode that returns an error leaves the buffer as it was given it,
\* and a decode called again on the untouched buffer returns the same error
\* and leaves the buffer once more.
C29_ErrLeavesBuffer ==
    /\ (op = "decode" /\ ret.tag = "Err") => src = pre.src
    /\ (op = "decode" /\ pre.op = "decode" /\ pre.ret.tag = "Err")
           => (ret = pre.ret /\ src = pre.src)

\* the codec has returned InvalidData twice in a row for the first eight bytes
\* of a packet of the supported format
C29_SameErrTwice ==
    /\ op = "decode"
    /\ pre.op = "decode"
    /\ pre.ret.tag = "Err"
    /\ ret = pre.ret
    /\ Len(src) = 8
    /\ version_tag(src) = 2019

\* C30: Packet::peek_packet_id leaves the cursor at position 0 whenever it
\* returns, also when it returns the error for a byte at offset 5 that is no
\* packet type; so does EventPacket::peek_event_code.
C30_PeeksRewindCursor ==
    (op \in {"peek_packet_id", "peek_event_code"} /\ ret.tag \in {"Ok", "Err"})
    => pos = 0

====
